---- MODULE Spec2Model ----
(***************************************************************************)
(* Model of the miniSAM inference orchestration layer                      *)
(* (src/src/core/index.ts): the initialization gate, the embedding cache,  *)
(* the session store and the segment / precomputeEmbedding tasks.          *)
(* Every asynchronous function is cut at its awaits: the code between two  *)
(* awaits runs to completion on the single JavaScript thread and is one    *)
(* action here.                                                            *)
(***************************************************************************)
EXTENDS Integers, Sequences, FiniteSets, TLC

\* ------------------------------------------------------------------ bounds
MaxCalls == 3
SpecCalls == 1
MaxTasks == 3
SpecTasks == 2
StoreTasks == 1
ReloadCalls == 2
MaxSessions == 2
SegSessions == 1
MaxClicks == 2
MaxNow == 1

\* --------------------------------------------------------------- constants
Models == {"encoder", "sam"}
Absent == "absent"
DefaultPath == "default"
CustomPaths == {"custom"}

VARIABLES
  encoderSession,        \* index.ts:64  loaded encoder backend or NullSession
  samSession,            \* index.ts:65  loaded decoder backend or NullSession
  isInitializing,        \* index.ts:42
  initializationPromise, \* index.ts:43  id of the promise (0 = null)
  nextCall,              \* next unused initSegmentation() call slot
  callPc,                \* what each initSegmentation() caller observes
  callAwaits,            \* the promise each caller was handed (0 = none)
  iife,                  \* the async body (index.ts:110-141) started by a call
  loadCalls,             \* instrumentation: InferenceSession.create calls per model
  gateSets               \* instrumentation: executions of index.ts:107

gateVars == <<encoderSession, samSession, isInitializing, initializationPromise,
              nextCall, callPc, callAwaits, iife, loadCalls, gateSets>>

VARIABLES
  now,                   \* Date.now()
  embeddingCache,        \* index.ts:30  Map<ImageKey, EmbeddingCache>
  sessionStates,         \* index.ts:39  Map<sessionId, SessionState object>
  objs,                  \* the SessionState objects (index.ts:33-37), by handle
  handleSid,             \* the private sessionId of each SegmentationSession
  nextSession,           \* next unused SegmentationSession handle
  tasks,                 \* segment() / precomputeEmbedding() calls
  nextTask,              \* next unused task slot
  warmed,                \* instrumentation: keys a precomputeEmbedding() call
                         \* has resolved with since the last cache clear
  cleared,               \* instrumentation: keys whose entry a cache clear
                         \* removed and that no call has asked for since
  ret,                   \* what the last call of a synchronous session method
                         \* threw and returned
  pure                   \* the last call of a function of utils/ on its own:
                         \* its arguments and what it returned

coreVars == <<now, embeddingCache, sessionStates, objs, handleSid, nextSession,
              tasks, nextTask, warmed, cleared, ret, pure>>

vars == <<gateVars, coreVars>>

\* no function of utils/ has been called on its own
NoPure == [fn |-> "none"]

\* ------------------------------------------------------------------- images
\* an HTMLImageElement (src, naturalWidth, naturalHeight) and a canvas
ImgA == [tag |-> "img", src |-> "a", width |-> 2, height |-> 1]
CanvasK == [tag |-> "canvas", src |-> "", width |-> 1, height |-> 2]
Images == {ImgA, CanvasK}
\* a second image element with the same src, whose resource has other
\* dimensions when it is decoded
ImgA2 == [tag |-> "img", src |-> "a", width |-> 4, height |-> 2]
CacheImages == Images \cup {ImgA2}
NoImage == [tag |-> "none", src |-> "", width |-> 0, height |-> 0]

NoKey == [tag |-> "none", src |-> "", w |-> 0, h |-> 0, t |-> 0]

\* image.src for an image element, `canvas_${width}x${height}_${Date.now()}`
\* for a canvas
ImageKey(image) ==
  IF image.tag = "img"
  THEN [tag |-> "img", src |-> image.src, w |-> 0, h |-> 0, t |-> 0]
  ELSE [tag |-> "canvas", src |-> "", w |-> image.width, h |-> image.height,
        t |-> now]

\* ------------------------------------------------------------------ clicks
ClickArgs == {[x |-> 1, y |-> 1, type |-> "undefined"],
              [x |-> 2, y |-> 1, type |-> "exclude"]}

\* mutant: the default of the type parameter is missing
ClickOfNoDefault(a) == [x |-> a.x, y |-> a.y, type |-> a.type]

\* addClick's default parameter: type: ClickType = "include"
ClickOf(a) == [x |-> a.x, y |-> a.y,
               type |-> IF a.type = "undefined" THEN "include" ELSE a.type]

\* mutant: the two labels are exchanged
clickTypeToSamLabelSwapped(type) == IF type = "include" THEN 0 ELSE 1
clickTypeToSamLabel(type) == IF type = "include" THEN 1 ELSE 0

\* state.clicks.map(click => ({x, y, clickType: clickTypeToSamLabel(type)}))
SamClicks(clicks) ==
  [i \in 1..Len(clicks) |->
     [x |-> clicks[i].x, y |-> clicks[i].y,
      clickType |-> clickTypeToSamLabel(clicks[i].type)]]

SamClickLists ==
  {SamClicks(cs) : cs \in {<<>>} \cup {<<ClickOf(a)>> : a \in ClickArgs}}

\* the click lists the callers of the cache specification pass
CacheClickLists == {SamClicks(<<ClickOf(a)>>) : a \in ClickArgs}

\* --------------------------------------------------------- model data
ENCODER_INPUT_SIZE == 1024
SAM_MASK_SIZE == 256

Max(a, b) == IF a >= b THEN a ELSE b

\* preprocessImageForEncoder: the two dimensions it returns beside the tensor
\* (naturalWidth / naturalHeight of an image element, width / height of a canvas)
PreprocessDims(image) == [originalWidth |-> image.width,
                          originalHeight |-> image.height]

NoEmbedding == [image |-> NoImage, by |-> 0, nameOf |-> 0]
NoEntry == [embedding |-> NoEmbedding, originalWidth |-> 0, originalHeight |-> 0]

NoFeeds == [built |-> FALSE, image_embeddings |-> NoEmbedding,
            point_coords |-> <<>>, point_coords_dims |-> <<>>,
            point_labels |-> <<>>, point_labels_dims |-> <<>>,
            orig_im_size |-> <<0, 0>>,
            mask_input |-> [dims |-> <<>>, fill |-> 0], has_mask_input |-> 0]

\* a product of an integer and a fraction, and the equality of two fractions
Times(c, f) == [num |-> c * f.num, den |-> f.den]
SameFraction(f, g) == f.num * g.den = g.num * f.den

\* mutant: the feed builder scales to half the edge length of the encoder
samScaleHalf(originalWidth, originalHeight) ==
  [num |-> 512, den |-> Max(originalWidth, originalHeight)]
\* const samScale = 1024 / Math.max(originalWidth, originalHeight)
samScale(originalWidth, originalHeight) ==
  [num |-> 1024, den |-> Max(originalWidth, originalHeight)]

\* mutant: the prior-mask input is a tensor that is not all zeros
MaskInputPrior ==
  [dims |-> <<1, 1, SAM_MASK_SIZE, SAM_MASK_SIZE>>, fill |-> 1]
\* maskInput: a fresh Float32Array of SAM_MASK_SIZE * SAM_MASK_SIZE zeros
\* (fill is the value of every element)
MaskInput ==
  [dims |-> <<1, 1, SAM_MASK_SIZE, SAM_MASK_SIZE>>, fill |-> 0]

\* buildSamFeeds: a coordinate c * (1024 / max(w, h)) is kept as the exact
\* fraction num / den
buildSamFeeds(clicks, embedding, originalWidth, originalHeight) ==
  LET n == Len(clicks)
      scale == samScale(originalWidth, originalHeight)
  IN [built |-> TRUE,
      image_embeddings |-> embedding,
      point_coords |->
        [i \in 1..(n + 1) |->
           IF i <= n
           THEN <<Times(clicks[i].x, scale), Times(clicks[i].y, scale)>>
           ELSE <<[num |-> 0, den |-> 1], [num |-> 0, den |-> 1]>>],
      point_coords_dims |-> <<1, n + 1, 2>>,
      point_labels |->
        [i \in 1..(n + 1) |->
           IF i <= n THEN clicks[i].clickType ELSE -1],
      point_labels_dims |-> <<1, n + 1>>,
      orig_im_size |-> <<originalHeight, originalWidth>>,
      mask_input |-> MaskInput,
      has_mask_input |-> 0]

\* Math.round of the fraction num / den >= 0: the nearest integer, halves up
Round(num, den) == (2 * num + den) \div (2 * den)

\* preprocessImageForEncoder(image, targetSize): the scale, the size of the
\* resized canvas, and the outcome. getImageData(0, 0, newWidth, newHeight)
\* throws an IndexSizeError when newWidth or newHeight is 0, and the tensor
\* is then never built
preprocessImageForEncoder(image, targetSize) ==
  LET originalWidth == image.width
      originalHeight == image.height
      scale == [num |-> targetSize, den |-> Max(originalWidth, originalHeight)]
      newWidth == Round(originalWidth * scale.num, scale.den)
      newHeight == Round(originalHeight * scale.num, scale.den)
  IN [scale |-> scale, newWidth |-> newWidth, newHeight |-> newHeight,
      err |-> IF newWidth = 0 \/ newHeight = 0
              THEN "IndexSizeError" ELSE "none",
      dims |-> IF newWidth = 0 \/ newHeight = 0
               THEN <<>> ELSE <<1, 3, targetSize, targetSize>>,
      originalWidth |-> originalWidth, originalHeight |-> originalHeight]

\* --------------------------------------------------------- postprocess
\* the scalars of a mask buffer, in halves: -1, 0, 0.5 and 1
MaskScalars == {-2, 0, 1, 2}

\* the dimensions of the masks given to maskToImageData on its own
MaskDims == {<<1, 1>>, <<2, 1>>, <<1, 2>>, <<2, 2>>}

\* mutant: the test is mask[i] >= 0
OpaqueFromZero(v) == v >= 0

\* if (mask[i] > 0)
Opaque(v) == v > 0

\* maskToImageData: rgba starts as 4 * maskWidth * maskHeight zero bytes, the
\* loop sets byte 4 * i + 3 for every i < mask.length with mask[i] > 0 (a
\* write past the end of a typed array does nothing); bytes are numbered
\* from 1 here, so the alpha of pixel i is byte 4 * i
maskToImageData(mask, maskWidth, maskHeight) ==
  [data |-> [j \in 1..(4 * maskWidth * maskHeight) |->
               IF j % 4 = 0 /\ (j \div 4) <= Len(mask) /\ Opaque(mask[j \div 4])
               THEN 255 ELSE 0],
   width |-> maskWidth,
   height |-> maskHeight]

Calls == 1..MaxCalls

NullSession == [model |-> "none", path |-> "none", gen |-> 0]

NoOpts == [given |-> FALSE, encoderModelPath |-> Absent, samModelPath |-> Absent]

OptsValues ==
  {NoOpts} \cup
  {[given |-> TRUE, encoderModelPath |-> e, samModelPath |-> s] :
      e \in {Absent} \cup CustomPaths, s \in {Absent} \cup CustomPaths}

NoLoads == [m \in Models |-> 0]

NoIife == [pc |-> "none", opts |-> NoOpts, loads |-> NoLoads,
           need |-> {}, failed |-> FALSE]

\* options.hasOwnProperty("encoderModelPath") / ("samModelPath")
HasOwn(o, m) ==
  IF m = "encoder" THEN o.encoderModelPath # Absent ELSE o.samModelPath # Absent

\* options.encoderModelPath || FULL_ENCODER_MODEL_URL, and the same for sam
FinalPath(o, m) ==
  LET p == IF m = "encoder" THEN o.encoderModelPath ELSE o.samModelPath
  IN IF p = Absent THEN DefaultPath ELSE p

Loaded(m) == IF m = "encoder" THEN encoderSession # NullSession
                              ELSE samSession # NullSession

\* mutant: the in-flight check is missing
NeverInitializing == FALSE

\* if (isInitializing) return initializationPromise
AlreadyInitializing == isInitializing

\* mutant: the `!opts` test lost its negation
FastPathNegated(o) == Loaded("encoder") /\ Loaded("sam") /\ o.given

\* if (encoderSession && samSession && !opts) return
FastPath(o) == Loaded("encoder") /\ Loaded("sam") /\ ~o.given

\* mutant: an explicit path is ignored once the encoder is loaded
NeedsEncoderIgnoresPath(o) == ~Loaded("encoder")

\* if (!encoderSession || options.hasOwnProperty("encoderModelPath"))
NeedsEncoder(o) == ~Loaded("encoder") \/ HasOwn(o, "encoder")

\* mutant: the test of samSession lost its negation
NeedsSamNegated(o) == Loaded("sam") \/ HasOwn(o, "sam")

\* if (!samSession || options.hasOwnProperty("samModelPath"))
NeedsSam(o) == ~Loaded("sam") \/ HasOwn(o, "sam")

\* the backend instance a successful InferenceSession.create call yields
NewInstance(m, o) == [model |-> m, path |-> FinalPath(o, m), gen |-> loadCalls[m]]

\* mutant: the catch block swallows the error
CatchSwallows == "resolved"

\* catch (error) { ...; throw error }
CatchOutcome == "rejected"

\* mutant: the flag is never cleared
FlagNeverCleared == TRUE

\* finally { isInitializing = false }
FinallyFlag == FALSE

\* ------------------------------------------------------------------- tasks
Tasks == 1..MaxTasks
Handles == 1..MaxSessions
Rand == {1, 2}

NullMask == [task |-> 0]
NoSid == [t |-> 0, r |-> 0]

\* what a session method returns: nothing a caller reads (`this`, undefined),
\* a copy of the click list, a count or the last mask
NoValue == [kind |-> "none", clicks |-> <<>>, count |-> 0, mask |-> NullMask]
Ok == [err |-> "none", value |-> NoValue]
\* throw new Error("Session state not found")
NotFoundError == [err |-> "notfound", value |-> NoValue]
NoObj == [imageKey |-> NoKey, clicks |-> <<>>, lastMask |-> NullMask]

NoTask == [kind |-> "none", pc |-> "idle", err |-> "none", image |-> NoImage,
           key |-> NoKey, clicks |-> <<>>, handle |-> 0, obj |-> 0,
           runInst |-> 0,
           originalWidth |-> 0, originalHeight |-> 0,
           embedding |-> NoEmbedding, feeds |-> NoFeeds, decInst |-> 0,
           preprocessed |-> FALSE, ranEncoder |-> FALSE, ranDecoder |-> FALSE,
           hitInst |-> 0, prior |-> NullMask, result |-> NullMask]

\* the last mask of the session of task record T at this moment (instrumentation:
\* what a feed builder that read the previous mask would have read)
PriorMask(T) == IF T.kind = "session" THEN objs[T.obj].lastMask ELSE NullMask

\* mutant: `||` became `&&`
SegmentPreconditionBoth == ~Loaded("encoder") /\ ~Loaded("sam")

\* if (!encoderSession || !samSession) throw
SegmentPreconditionFails == ~Loaded("encoder") \/ ~Loaded("sam")

\* if (!encoderSession) throw
PrecomputePreconditionFails == ~Loaded("encoder")

\* mutant: an entry computed by another encoder instance is no hit
CacheHasFresh(key) ==
  /\ key \in DOMAIN embeddingCache
  /\ embeddingCache[key].embedding.by = encoderSession.gen

\* mutant: the cache lookup never hits
CacheNeverHit(key) == FALSE

\* embeddingCache.has(imageKey)
CacheHas(key) == key \in DOMAIN embeddingCache

\* mutant: a cache of capacity one, a write evicts every other entry
CacheSetEvicts(key, entry) == [k \in {key} |-> entry]

\* mutant: the first write for a key wins
CacheSetIfAbsent(key, entry) ==
  [k \in DOMAIN embeddingCache \cup {key} |->
     IF k \in DOMAIN embeddingCache THEN embeddingCache[k] ELSE entry]

\* embeddingCache.set(imageKey, entry)
CacheSet(key, entry) ==
  [k \in DOMAIN embeddingCache \cup {key} |->
     IF k = key THEN entry ELSE embeddingCache[k]]

\* mutant: the empty-list test is missing
NoClicksNever(clicks) == FALSE

\* mutant: the empty-list test is off by one
NoClicksOffByOne(clicks) == Len(clicks) = 1

\* if (state.clicks.length === 0)
NoClicks(clicks) == Len(clicks) = 0

\* instrumentation: a segment() call that gets past its precondition asks for
\* the identity of its image
AskedFor(image) ==
  IF SegmentPreconditionFails THEN cleared ELSE cleared \ {ImageKey(image)}

\* mutant: on a cache hit the dimensions are read from the image of the call
HitDimsFromImage(cached, image) == PreprocessDims(image)

\* originalWidth = cached.originalWidth; originalHeight = cached.originalHeight
HitDims(cached, image) == [originalWidth |-> cached.originalWidth,
                           originalHeight |-> cached.originalHeight]

\* the module-level segment() from its first line to its first await
\* (index.ts:282-336) for task record base (kind, image, clicks, obj given)
SegmentStart(base) ==
  LET key == ImageKey(base.image) IN
  IF SegmentPreconditionFails THEN
    [base EXCEPT !.pc = "rejected", !.err = "precondition"]
  ELSE IF CacheHas(key) THEN
    LET cached == embeddingCache[key]
        dims == HitDims(cached, base.image)
    IN
    [base EXCEPT !.key = key, !.pc = "dec",
                 !.embedding = cached.embedding,
                 !.originalWidth = dims.originalWidth,
                 !.originalHeight = dims.originalHeight,
                 !.feeds = buildSamFeeds(base.clicks, cached.embedding,
                             dims.originalWidth, dims.originalHeight),
                 !.decInst = samSession.gen,
                 !.ranDecoder = TRUE,
                 !.hitInst = encoderSession.gen,
                 !.prior = PriorMask(base)]
  ELSE
    LET dims == PreprocessDims(base.image) IN
    [base EXCEPT !.key = key, !.pc = "enc",
                 !.preprocessed = TRUE,
                 !.originalWidth = dims.originalWidth,
                 !.originalHeight = dims.originalHeight,
                 !.runInst = encoderSession.gen,
                 !.ranEncoder = TRUE]

InitGate ==
  /\ encoderSession = NullSession
  /\ samSession = NullSession
  /\ isInitializing = FALSE
  /\ initializationPromise = 0
  /\ nextCall = 1
  /\ callPc = [c \in Calls |-> "idle"]
  /\ callAwaits = [c \in Calls |-> 0]
  /\ iife = [c \in Calls |-> NoIife]
  /\ loadCalls = NoLoads
  /\ gateSets = 0

InitCore ==
  /\ now = 0
  /\ embeddingCache = [k \in {} |-> NoEntry]
  /\ sessionStates = [k \in {} |-> 0]
  /\ objs = [h \in Handles |-> NoObj]
  /\ handleSid = [h \in Handles |-> NoSid]
  /\ nextSession = 1
  /\ tasks = [t \in Tasks |-> NoTask]
  /\ nextTask = 1
  /\ warmed = {}
  /\ cleared = {}
  /\ ret = Ok
  /\ pure = NoPure

\* the state after the module is loaded
Init == InitGate /\ InitCore

\* the gate after a first `await initSegmentation()` has resolved: both
\* backends loaded from the default locations
ReadyGate ==
  /\ encoderSession = [model |-> "encoder", path |-> DefaultPath, gen |-> 1]
  /\ samSession = [model |-> "sam", path |-> DefaultPath, gen |-> 1]
  /\ isInitializing = FALSE
  /\ initializationPromise = 1
  /\ nextCall = 2
  /\ callPc = [c \in Calls |-> IF c = 1 THEN "resolved" ELSE "idle"]
  /\ callAwaits = [c \in Calls |-> IF c = 1 THEN 1 ELSE 0]
  /\ iife = [c \in Calls |->
              IF c = 1 THEN [pc |-> "resolved", opts |-> NoOpts,
                             loads |-> [m \in Models |-> 1],
                             need |-> Models, failed |-> FALSE]
              ELSE NoIife]
  /\ loadCalls = [m \in Models |-> 1]
  /\ gateSets = 1

\* initSegmentation(opts): the synchronous part of the call, up to the first
\* await inside the async body
initSegmentation(o) ==
  /\ nextCall <= MaxCalls
  /\ nextCall' = nextCall + 1
  /\ UNCHANGED coreVars
  /\ LET c == nextCall IN
     IF AlreadyInitializing THEN
       /\ callPc' = [callPc EXCEPT ![c] = "waiting"]
       /\ callAwaits' = [callAwaits EXCEPT ![c] = initializationPromise]
       /\ UNCHANGED <<encoderSession, samSession, isInitializing,
                      initializationPromise, iife, loadCalls, gateSets>>
     ELSE IF FastPath(o) THEN
       /\ callPc' = [callPc EXCEPT ![c] = "resolved"]
       /\ UNCHANGED <<encoderSession, samSession, isInitializing,
                      initializationPromise, callAwaits, iife, loadCalls,
                      gateSets>>
     ELSE
       LET first == IF NeedsEncoder(o) THEN "encoder"
                    ELSE IF NeedsSam(o) THEN "sam" ELSE "none"
           need  == {m \in Models : IF m = "encoder" THEN NeedsEncoder(o)
                                                      ELSE NeedsSam(o)}
       IN
       /\ gateSets' = gateSets + 1
       /\ initializationPromise' = c
       /\ callPc' = [callPc EXCEPT ![c] = "waiting"]
       /\ callAwaits' = [callAwaits EXCEPT ![c] = c]
       /\ UNCHANGED <<encoderSession, samSession>>
       /\ IF first = "none" THEN
            /\ isInitializing' = FinallyFlag
            /\ iife' = [iife EXCEPT ![c] =
                 [pc |-> "resolved", opts |-> o, loads |-> NoLoads,
                  need |-> need, failed |-> FALSE]]
            /\ UNCHANGED loadCalls
          ELSE
            /\ isInitializing' = TRUE
            /\ loadCalls' = [loadCalls EXCEPT ![first] = @ + 1]
            /\ iife' = [iife EXCEPT ![c] =
                 [pc |-> IF first = "encoder" THEN "encLoad" ELSE "decLoad",
                  opts |-> o,
                  loads |-> [NoLoads EXCEPT ![first] = 1],
                  need |-> need, failed |-> FALSE]]

\* the encoder load of call c's body settles successfully (index.ts:121),
\* the body goes on to the decoder load or finishes
EncoderLoaded(c) ==
  /\ iife[c].pc = "encLoad"
  /\ encoderSession' = NewInstance("encoder", iife[c].opts)
  /\ IF NeedsSam(iife[c].opts) THEN
       /\ loadCalls' = [loadCalls EXCEPT !["sam"] = @ + 1]
       /\ iife' = [iife EXCEPT ![c].pc = "decLoad", ![c].loads["sam"] = @ + 1]
       /\ UNCHANGED isInitializing
     ELSE
       /\ iife' = [iife EXCEPT ![c].pc = "resolved"]
       /\ isInitializing' = FinallyFlag
       /\ UNCHANGED loadCalls
  /\ UNCHANGED <<samSession, initializationPromise, nextCall, callPc,
                 callAwaits, gateSets>>
  /\ UNCHANGED coreVars

\* the decoder load of call c's body settles successfully (index.ts:128)
SamLoaded(c) ==
  /\ iife[c].pc = "decLoad"
  /\ samSession' = NewInstance("sam", iife[c].opts)
  /\ iife' = [iife EXCEPT ![c].pc = "resolved"]
  /\ isInitializing' = FinallyFlag
  /\ UNCHANGED <<encoderSession, initializationPromise, nextCall, callPc,
                 callAwaits, loadCalls, gateSets>>
  /\ UNCHANGED coreVars

\* InferenceSession.create rejects (index.ts:52-61): loadModel rethrows, the
\* body's catch rethrows, finally clears the flag
LoadFailed(c) ==
  /\ iife[c].pc \in {"encLoad", "decLoad"}
  /\ iife' = [iife EXCEPT ![c].pc = CatchOutcome, ![c].failed = TRUE]
  /\ isInitializing' = FinallyFlag
  /\ UNCHANGED <<encoderSession, samSession, initializationPromise, nextCall,
                 callPc, callAwaits, loadCalls, gateSets>>
  /\ UNCHANGED coreVars

\* the promise returned to caller c follows the promise it was handed
CallSettles(c) ==
  /\ callPc[c] = "waiting"
  /\ iife[callAwaits[c]].pc \in {"resolved", "rejected"}
  /\ callPc' = [callPc EXCEPT ![c] = iife[callAwaits[c]].pc]
  /\ UNCHANGED <<encoderSession, samSession, isInitializing,
                 initializationPromise, nextCall, callAwaits, iife, loadCalls,
                 gateSets>>
  /\ UNCHANGED coreVars

\* ------------------------------------------------------- session manager
\* mutant: the session keeps a reference to its state object
StateOfHandle(h) == h

\* sessionStates.get(this.sessionId): the state object, 0 when there is none
StateOf(h) ==
  IF handleSid[h] \in DOMAIN sessionStates THEN sessionStates[handleSid[h]] ELSE 0

Created(h) == h < nextSession

\* new SegmentationSession(image) (index.ts:151-166); r is the random part of
\* the identifier
createSession(image, r) ==
  /\ nextSession <= MaxSessions
  /\ LET h == nextSession
         sid == [t |-> now, r |-> r]
     IN /\ handleSid' = [handleSid EXCEPT ![h] = sid]
        /\ objs' = [objs EXCEPT ![h] = [imageKey |-> ImageKey(image),
                                        clicks |-> <<>>,
                                        lastMask |-> NullMask]]
        /\ sessionStates' = [k \in DOMAIN sessionStates \cup {sid} |->
                               IF k = sid THEN h ELSE sessionStates[k]]
  /\ nextSession' = nextSession + 1
  /\ UNCHANGED <<gateVars, now, embeddingCache, tasks, nextTask, warmed, cleared, ret>>
  /\ UNCHANGED pure

\* addClick(x, y, type = "include") (index.ts:169-179)
addClick(h, a) ==
  /\ Created(h)
  /\ IF StateOf(h) = 0 THEN
       /\ ret' = NotFoundError
       /\ UNCHANGED objs
     ELSE
       /\ Len(objs[StateOf(h)].clicks) < MaxClicks
       /\ objs' = [objs EXCEPT ![StateOf(h)].clicks = Append(@, ClickOf(a))]
       /\ ret' = Ok
  /\ UNCHANGED <<gateVars, now, embeddingCache, sessionStates, handleSid,
                 nextSession, tasks, nextTask, warmed, cleared>>
  /\ UNCHANGED pure

\* mutant: pop() on an empty list throws
PopEmptyThrows == NotFoundError

\* state.clicks.length > 0 is false: nothing is done and `this` is returned
\* (instrumentation: the value says that this branch was taken)
PopEmpty == [err |-> "none", value |-> [NoValue EXCEPT !.kind = "nopop"]]

\* removeLastClick() (index.ts:182-192)
removeLastClick(h) ==
  /\ Created(h)
  /\ IF StateOf(h) = 0 THEN
       /\ ret' = NotFoundError
       /\ UNCHANGED objs
     ELSE IF Len(objs[StateOf(h)].clicks) > 0 THEN
       /\ objs' = [objs EXCEPT ![StateOf(h)].clicks = SubSeq(@, 1, Len(@) - 1)]
       /\ ret' = Ok
     ELSE
       /\ ret' = PopEmpty
       /\ UNCHANGED objs
  /\ UNCHANGED <<gateVars, now, embeddingCache, sessionStates, handleSid,
                 nextSession, tasks, nextTask, warmed, cleared>>
  /\ UNCHANGED pure

\* mutant: reset() forgets the last mask
ResetClicksOnly(state) == [state EXCEPT !.clicks = <<>>]

\* state.clicks = []; state.lastMask = null
ResetState(state) == [state EXCEPT !.clicks = <<>>, !.lastMask = NullMask]

\* reset() (index.ts:195-205)
reset(h) ==
  /\ Created(h)
  /\ IF StateOf(h) = 0 THEN
       /\ ret' = NotFoundError
       /\ UNCHANGED objs
     ELSE
       /\ objs' = [objs EXCEPT ![StateOf(h)] = ResetState(@)]
       /\ ret' = Ok
  /\ UNCHANGED <<gateVars, now, embeddingCache, sessionStates, handleSid,
                 nextSession, tasks, nextTask, warmed, cleared>>
  /\ UNCHANGED pure

\* a getter of a session: it throws or returns the value v, and changes nothing
Getter(h, v) ==
  /\ Created(h)
  /\ ret' = IF StateOf(h) = 0 THEN NotFoundError
            ELSE [err |-> "none", value |-> v]
  /\ UNCHANGED <<gateVars, now, embeddingCache, sessionStates, objs, handleSid,
                 nextSession, tasks, nextTask, warmed, cleared>>
  /\ UNCHANGED pure

\* getClicks() (index.ts:208-214): return [...state.clicks]
getClicks(h) ==
  Getter(h, [NoValue EXCEPT !.kind = "clicks",
                            !.clicks = objs[StateOf(h)].clicks])

\* getClickCount() (index.ts:217-223): return state.clicks.length
getClickCount(h) ==
  Getter(h, [NoValue EXCEPT !.kind = "count",
                            !.count = Len(objs[StateOf(h)].clicks)])

\* getLastMask() (index.ts:256-262): return state.lastMask
getLastMask(h) ==
  Getter(h, [NoValue EXCEPT !.kind = "mask",
                            !.mask = objs[StateOf(h)].lastMask])

\* mutant: deleting one identifier empties the store
DeleteAll(sid) == [k \in {} |-> 0]

\* sessionStates.delete(sid)
Delete(sid) == [k \in DOMAIN sessionStates \ {sid} |-> sessionStates[k]]

\* dispose() (index.ts:265-267): Map.delete never throws (instrumentation:
\* the value says what delete(), whose result the code drops, found)
dispose(h) ==
  /\ Created(h)
  /\ sessionStates' = Delete(handleSid[h])
  /\ ret' = [err |-> "none",
             value |-> [NoValue EXCEPT !.kind =
                          IF handleSid[h] \in DOMAIN sessionStates
                          THEN "deleted" ELSE "absent"]]
  /\ UNCHANGED <<gateVars, now, embeddingCache, objs, handleSid, nextSession,
                 tasks, nextTask, warmed, cleared>>
  /\ UNCHANGED pure

\* clearAllSessions() (index.ts:354-356)
clearAllSessions ==
  /\ sessionStates' = [k \in {} |-> 0]
  /\ UNCHANGED <<gateVars, now, embeddingCache, objs, handleSid, nextSession,
                 tasks, nextTask, warmed, cleared, ret>>
  /\ UNCHANGED pure

\* clearEmbeddingCache() (index.ts:349-351)
clearEmbeddingCache ==
  /\ embeddingCache' = [k \in {} |-> NoEntry]
  /\ warmed' = {}
  /\ cleared' = cleared \cup DOMAIN embeddingCache
  /\ UNCHANGED <<gateVars, now, sessionStates, objs, handleSid, nextSession,
                 tasks, nextTask, ret>>
  /\ UNCHANGED pure

\* the clock behind Date.now() advances
Tick ==
  /\ now < MaxNow
  /\ now' = now + 1
  /\ UNCHANGED <<gateVars, embeddingCache, sessionStates, objs, handleSid,
                 nextSession, tasks, nextTask, warmed, cleared, ret>>
  /\ UNCHANGED pure

\* ------------------------------------------------------------ orchestrator
\* a caller invokes the module-level segment({image, clicks})
segment(image, clicks) ==
  /\ nextTask <= MaxTasks
  /\ nextTask' = nextTask + 1
  /\ tasks' = [tasks EXCEPT ![nextTask] =
       SegmentStart([NoTask EXCEPT !.kind = "segment", !.image = image,
                                   !.clicks = clicks])]
  /\ cleared' = AskedFor(image)
  /\ UNCHANGED <<gateVars, now, embeddingCache, sessionStates, objs, handleSid,
                 nextSession, warmed, ret>>
  /\ UNCHANGED pure

\* mutant: the session segments the image it was created with
StoredImage(state, image) ==
  CHOOSE im \in Images : ImageKey(im) = state.imageKey
\* segment({image, clicks: samClicks}): the image is the argument of the
\* call, state.imageKey is not read (index.ts:246-249)
SegmentImage(state, image) == image

\* SegmentationSession.segment(image) up to its await (index.ts:226-249)
sessionSegment(h, image) ==
  /\ Created(h)
  /\ nextTask <= MaxTasks
  /\ nextTask' = nextTask + 1
  /\ LET o == StateOf(h)
         base == [NoTask EXCEPT !.kind = "session", !.image = image,
                                !.handle = h, !.obj = o]
     IN IF o = 0 THEN
          /\ tasks' = [tasks EXCEPT ![nextTask] =
               [base EXCEPT !.pc = "rejected", !.err = "notfound"]]
          /\ UNCHANGED <<objs, cleared, ret>>
        ELSE IF NoClicks(objs[o].clicks) THEN
          /\ objs' = [objs EXCEPT ![o].lastMask = NullMask]
          /\ tasks' = [tasks EXCEPT ![nextTask] =
               [base EXCEPT !.pc = "resolved", !.result = NullMask]]
          /\ UNCHANGED cleared
        ELSE
          /\ tasks' = [tasks EXCEPT ![nextTask] =
               SegmentStart([base EXCEPT
                 !.image = SegmentImage(objs[o], image),
                 !.clicks = SamClicks(objs[o].clicks)])]
          /\ cleared' = AskedFor(image)
          /\ UNCHANGED objs
  /\ UNCHANGED <<gateVars, now, embeddingCache, sessionStates, handleSid,
                 nextSession, warmed, ret>>
  /\ UNCHANGED pure

\* precomputeEmbedding(image) up to its await (index.ts:365-393)
precomputeEmbedding(image) ==
  /\ nextTask <= MaxTasks
  /\ nextTask' = nextTask + 1
  /\ LET key == ImageKey(image)
         dims == PreprocessDims(image)
         base == [NoTask EXCEPT !.kind = "precompute", !.image = image]
     IN IF PrecomputePreconditionFails THEN
          /\ tasks' = [tasks EXCEPT ![nextTask] =
               [base EXCEPT !.pc = "rejected", !.err = "precondition"]]
          /\ UNCHANGED <<warmed, cleared, ret>>
        ELSE IF CacheHas(key) THEN
          /\ tasks' = [tasks EXCEPT ![nextTask] =
               [base EXCEPT !.pc = "resolved", !.key = key]]
          /\ warmed' = warmed \cup {key}
          /\ cleared' = cleared \ {key}
        ELSE
          /\ tasks' = [tasks EXCEPT ![nextTask] =
               [base EXCEPT !.pc = "enc", !.key = key,
                            !.preprocessed = TRUE,
                            !.originalWidth = dims.originalWidth,
                            !.originalHeight = dims.originalHeight,
                            !.runInst = encoderSession.gen,
                            !.ranEncoder = TRUE]]
          /\ cleared' = cleared \ {key}
          /\ UNCHANGED warmed
  /\ UNCHANGED <<gateVars, now, embeddingCache, sessionStates, objs, handleSid,
                 nextSession, ret>>
  /\ UNCHANGED pure

\* encRes[encoderSession.outputNames[0]]: the run of instance ran, read with
\* the output name of the backend that is the encoder now
ExtractEmbedding(image, ran) ==
  [image |-> image, by |-> ran, nameOf |-> encoderSession.gen]

\* the ImageData a resolved segment task t returns
Bitmap(t) == [task |-> t]

\* mutant: the feeds are built from the click list of the session as it is
\* when the encoder run completes
LiveClicks(T) ==
  IF T.kind = "session" THEN SamClicks(objs[T.obj].clicks) ELSE T.clicks
\* params.clicks: for a session the array state.clicks.map(...) made when
\* segment() was called (index.ts:240-249), read again at index.ts:329
CallClicks(T) == T.clicks

\* mutant: precomputeEmbedding goes on to the decoder as segment does
ReturnsKeyNever(kind) == FALSE
\* after embeddingCache.set, precomputeEmbedding returns imageKey
\* (index.ts:404) where segment builds the feeds (index.ts:328)
ReturnsKey(kind) == kind = "precompute"

\* the encoder run of task t resolves: the embedding is cached
\* (index.ts:315-323, 394-402); segment goes on to the decoder (index.ts:328-336)
EncoderDone(t) ==
  /\ tasks[t].pc = "enc"
  /\ LET T == tasks[t]
         embedding == ExtractEmbedding(T.image, T.runInst)
     IN /\ embeddingCache' = CacheSet(T.key,
             [embedding |-> embedding, originalWidth |-> T.originalWidth,
              originalHeight |-> T.originalHeight])
        /\ IF ReturnsKey(T.kind) THEN
             /\ tasks' = [tasks EXCEPT ![t].pc = "resolved",
                                       ![t].embedding = embedding]
             /\ warmed' = warmed \cup {T.key}
           ELSE
             /\ tasks' = [tasks EXCEPT ![t].pc = "dec",
                            ![t].embedding = embedding,
                            ![t].feeds = buildSamFeeds(CallClicks(T), embedding,
                                           T.originalWidth, T.originalHeight),
                            ![t].decInst = samSession.gen,
                            ![t].ranDecoder = TRUE,
                            ![t].prior = PriorMask(T)]
             /\ UNCHANGED warmed
  /\ UNCHANGED <<gateVars, now, sessionStates, objs, handleSid, nextSession,
                 nextTask, cleared, ret>>
  /\ UNCHANGED pure

\* mutant: a failed backend run is swallowed and the call resolves
FailureSwallowed == "resolved"
\* no try/catch around the awaited runs (index.ts:314, 336, 393) nor around
\* the session's await (index.ts:246): the call rejects with the run's error
RunFailed == "rejected"

\* encoderSession.run rejects: the task rejects
EncoderFailed(t) ==
  /\ tasks[t].pc = "enc"
  /\ tasks' = [tasks EXCEPT ![t].pc = RunFailed, ![t].err = "backend"]
  /\ UNCHANGED <<gateVars, now, embeddingCache, sessionStates, objs, handleSid,
                 nextSession, nextTask, warmed, cleared, ret>>
  /\ UNCHANGED pure

\* mutant: the session returns the mask without storing it
StoredNothing(state, mask) == state
\* state.lastMask = mask
StoreMask(state, mask) == [state EXCEPT !.lastMask = mask]

\* the decoder run of task t resolves (index.ts:337-345); a session's segment
\* stores the mask in the state object it read at its start (index.ts:251)
DecoderDone(t) ==
  /\ tasks[t].pc = "dec"
  /\ tasks' = [tasks EXCEPT ![t].pc = "resolved", ![t].result = Bitmap(t)]
  /\ IF tasks[t].kind = "session"
     THEN objs' = [objs EXCEPT ![tasks[t].obj] = StoreMask(@, Bitmap(t))]
     ELSE UNCHANGED objs
  /\ UNCHANGED <<gateVars, now, embeddingCache, sessionStates, handleSid,
                 nextSession, nextTask, warmed, cleared, ret>>
  /\ UNCHANGED pure

\* samSession.run rejects: the task rejects
DecoderFailed(t) ==
  /\ tasks[t].pc = "dec"
  /\ tasks' = [tasks EXCEPT ![t].pc = RunFailed, ![t].err = "backend"]
  /\ UNCHANGED <<gateVars, now, embeddingCache, sessionStates, objs, handleSid,
                 nextSession, nextTask, warmed, cleared, ret>>
  /\ UNCHANGED pure


\* the completion steps of the gate and of the tasks, shared by every
\* specification below
GateSteps ==
  \/ \E c \in Calls : EncoderLoaded(c)
  \/ \E c \in Calls : SamLoaded(c)
  \/ \E c \in Calls : LoadFailed(c)
  \/ \E c \in Calls : CallSettles(c)

TaskSteps ==
  \/ \E t \in Tasks : EncoderDone(t)
  \/ \E t \in Tasks : EncoderFailed(t)
  \/ \E t \in Tasks : DecoderDone(t)
  \/ \E t \in Tasks : DecoderFailed(t)

\* the options the callers of the orchestrator specifications pass
SpecOpts == {NoOpts,
             [given |-> TRUE, encoderModelPath |-> "custom",
              samModelPath |-> Absent]}

\* the orchestrator and the embedding cache
Next ==
  \/ \E o \in SpecOpts : nextCall <= SpecCalls /\ initSegmentation(o)
  \/ GateSteps
  \/ clearEmbeddingCache
  \/ Tick
  \/ \E im \in Images, cl \in SamClickLists :
       nextTask <= SpecTasks /\ segment(im, cl)
  \/ \E im \in Images : nextTask <= SpecTasks /\ precomputeEmbedding(im)
  \/ TaskSteps

Spec == Init /\ [][Next]_vars

\* the session manager on top of the orchestrator, before any
\* initSegmentation() call and after a first one has resolved
SessionInit == (InitGate \/ ReadyGate) /\ InitCore

SessionNext ==
  \/ \E im \in Images : nextSession <= SegSessions /\ createSession(im, 1)
  \/ \E h \in Handles, a \in ClickArgs : addClick(h, a)
  \/ \E h \in Handles : removeLastClick(h)
  \/ \E h \in Handles : reset(h)
  \/ \E h \in Handles : dispose(h)
  \/ clearAllSessions
  \/ \E im \in Images, cl \in SamClickLists :
       nextTask <= SpecTasks /\ segment(im, cl)
  \/ \E h \in Handles, im \in Images :
       nextTask <= SpecTasks /\ sessionSegment(h, im)
  \/ TaskSteps

SessionSpec == SessionInit /\ [][SessionNext]_vars

\* every variable but pure
sysVars == <<gateVars, now, embeddingCache, sessionStates, objs, handleSid,
             nextSession, tasks, nextTask, warmed, cleared, ret>>

\* the mask buffers of a given length
RECURSIVE MasksOfLen(_)
MasksOfLen(n) ==
  IF n = 0 THEN {<<>>}
  ELSE {Append(m, v) : m \in MasksOfLen(n - 1), v \in MaskScalars}

\* a caller applies maskToImageData to a buffer of width * height scalars
CallMaskToImageData(mask, maskWidth, maskHeight) ==
  /\ pure' = [fn |-> "maskToImageData", mask |-> mask, width |-> maskWidth,
               height |-> maskHeight,
               out |-> maskToImageData(mask, maskWidth, maskHeight)]
  /\ UNCHANGED sysVars

\* the typed click lists and sizes given to buildSamFeeds on its own
PureClicks == {[x |-> x, y |-> 1, type |-> ty] :
                 x \in {1, 3}, ty \in {"include", "exclude"}}
PureClickLists ==
  {<<>>} \cup {<<a>> : a \in PureClicks}
         \cup {<<a, b>> : a \in PureClicks, b \in PureClicks}
PureSizes == {<<4, 2>>, <<2, 4>>, <<3, 3>>}

\* the clicks of a session mapped as SegmentationSession.segment maps them,
\* then buildSamFeeds on them
CallBuildSamFeeds(clicks, originalWidth, originalHeight) ==
  /\ pure' = [fn |-> "buildSamFeeds", clicks |-> clicks,
              width |-> originalWidth, height |-> originalHeight,
              out |-> buildSamFeeds(SamClicks(clicks), NoEmbedding,
                                    originalWidth, originalHeight)]
  /\ UNCHANGED sysVars

\* the sides of the canvases and the edge lengths given to the preprocessor
PureSides == {1, 2, 3, 5, 2048, 2049}
PureTargets == {1, 2, 3, ENCODER_INPUT_SIZE}

CallPreprocessImageForEncoder(image, targetSize) ==
  /\ pure' = [fn |-> "preprocessImageForEncoder", image |-> image,
              targetSize |-> targetSize,
              out |-> preprocessImageForEncoder(image, targetSize)]
  /\ UNCHANGED sysVars

\* the functions of utils/ on their own
PureNext ==
  \/ \E d \in MaskDims : \E mask \in MasksOfLen(d[1] * d[2]) :
       CallMaskToImageData(mask, d[1], d[2])
  \/ \E clicks \in PureClickLists : \E d \in PureSizes :
       CallBuildSamFeeds(clicks, d[1], d[2])
  \/ \E w \in PureSides : \E h \in PureSides : \E targetSize \in PureTargets :
       CallPreprocessImageForEncoder(
         [tag |-> "canvas", src |-> "", width |-> w, height |-> h], targetSize)

PureSpec == Init /\ [][PureNext]_vars

\* the initialization gate alone
GateNext ==
  \/ \E o \in OptsValues : initSegmentation(o)
  \/ GateSteps

GateSpec == Init /\ [][GateNext]_vars

\* every backend load eventually settles, one way or the other
LoadSettles ==
  \E c \in Calls : EncoderLoaded(c) \/ SamLoaded(c) \/ LoadFailed(c)

FairGateSpec == GateSpec /\ WF_vars(LoadSettles)

\* the embedding cache under concurrent requests, after a first
\* `await initSegmentation()` has resolved
CacheInit == ReadyGate /\ InitCore

CacheNext ==
  \/ clearEmbeddingCache
  \/ \E im \in CacheImages, cl \in CacheClickLists : segment(im, cl)
  \/ \E im \in CacheImages : precomputeEmbedding(im)
  \/ TaskSteps

CacheSpec == CacheInit /\ [][CacheNext]_vars

\* the session store: two sessions created in one millisecond, the random
\* part of the second identifier equal to that of the first (called 1) or
\* not, every method of a session
StoreNext ==
  \/ \E r \in Rand : (nextSession = 1 => r = 1) /\ createSession(ImgA, r)
  \/ \E h \in Handles, a \in ClickArgs : addClick(h, a)
  \/ \E h \in Handles : removeLastClick(h)
  \/ \E h \in Handles : reset(h)
  \/ \E h \in Handles : getClicks(h)
  \/ \E h \in Handles : getClickCount(h)
  \/ \E h \in Handles : getLastMask(h)
  \/ \E h \in Handles : dispose(h)
  \/ clearAllSessions
  \/ \E h \in Handles : nextTask <= StoreTasks /\ sessionSegment(h, ImgA)
  \/ TaskSteps

StoreSpec == CacheInit /\ [][StoreNext]_vars

\* the options that name a path for model m only
OnlyPath(m) ==
  [given |-> TRUE,
   encoderModelPath |-> IF m = "encoder" THEN "custom" ELSE Absent,
   samModelPath |-> IF m = "sam" THEN "custom" ELSE Absent]

\* the encoder reloaded, by initSegmentation({encoderModelPath}), beside the
\* calls that use it
ReloadNext ==
  \/ nextCall <= ReloadCalls /\ initSegmentation(OnlyPath("encoder"))
  \/ \E c \in Calls : EncoderLoaded(c)
  \/ \E c \in Calls : LoadFailed(c)
  \/ \E c \in Calls : CallSettles(c)
  \/ \E cl \in CacheClickLists : nextTask <= SpecTasks /\ segment(ImgA, cl)
  \/ nextTask <= SpecTasks /\ precomputeEmbedding(ImgA)
  \/ TaskSteps

ReloadSpec == CacheInit /\ [][ReloadNext]_vars

\* ------------------------------------------------------------------ claims
InFlight(p) == iife[p].pc \in {"encLoad", "decLoad"}

\* the callers that were handed promise p
Waiters(p) == {c \in Calls : callPc[c] # "idle" /\ callAwaits[c] = p}


Other(m) == IF m = "encoder" THEN "sam" ELSE "encoder"

SessionOf(m) == IF m = "encoder" THEN encoderSession ELSE samSession

\* C1: initSegmentation() calls made while an initialization is in flight
\* start no load and no body of their own and are handed the pending promise
\* of that initialization; whatever the number of callers, one initialization
\* invokes the loader at most once per backend, and exactly once for every
\* backend it has to load when its loads complete.
C1_OneLoadPerRace ==
  /\ [](\A p \in Calls :
          /\ \A m \in Models : iife[p].loads[m] <= 1
          /\ iife[p].pc = "resolved" =>
               \A m \in Models :
                 iife[p].loads[m] = IF m \in iife[p].need THEN 1 ELSE 0)
  /\ [][\A p \in Calls :
          (InFlight(p) /\ nextCall' = nextCall + 1) =>
             /\ loadCalls' = loadCalls
             /\ iife' = iife
             /\ callPc'[nextCall] = "waiting"
             /\ callAwaits'[nextCall] = p]_vars

\* two callers raced on the first initialization, which loaded each backend once
C1_Witness ==
  \E p \in Calls :
    /\ iife[p].pc = "resolved"
    /\ iife[p].need = Models
    /\ Cardinality(Waiters(p)) >= 2
    /\ \A m \in Models : iife[p].loads[m] = 1 /\ loadCalls[m] = 1

\* C2: whenever the promise of an initSegmentation() call has resolved, both
\* backends are loaded, so that segment()'s precondition check passes.
C2_ResolvedMeansLoaded ==
  \A c \in Calls :
    callPc[c] = "resolved" =>
      /\ encoderSession # NullSession
      /\ samSession # NullSession
      /\ ~SegmentPreconditionFails

C2_Witness ==
  \E c \in Calls : callPc[c] = "resolved" /\ callAwaits[c] = c
                   /\ iife[c].need = Models

\* C3: when a backend load fails during an initialization, the promise of
\* that initialization rejects and no caller that was handed it, the
\* initiating one included, resolves successfully.
C3_FailureReachesEveryWaiter ==
  \A p \in Calls :
    iife[p].failed =>
      /\ iife[p].pc = "rejected"
      /\ \A c \in Waiters(p) : callPc[c] \in {"waiting", "rejected"}

\* the initiating caller and an attached caller both observed the rejection
C3_Witness ==
  \E p \in Calls :
    /\ iife[p].failed
    /\ Cardinality(Waiters(p)) >= 2
    /\ \A c \in Waiters(p) : callPc[c] = "rejected"

\* C4: the in-flight flag is set exactly while the body of an initialization
\* awaits a load, and once set it is cleared again (every load settling in
\* the end), so it is clear once the attempt has finished, failed or not; a
\* call made after a failed attempt is not handed the old promise:
\* while a backend is not loaded it starts a body of its own, which invokes
\* the loader at once and has every backend that is not loaded to load (and
\* has loaded each of them once when it resolves).
C4_GateResets ==
  /\ (isInitializing ~> ~isInitializing)
  /\ [](isInitializing <=> \E p \in Calls : InFlight(p))
  /\ [](\A p \in Calls : iife[p].pc = "resolved" =>
          \A m \in iife[p].need : iife[p].loads[m] = 1 /\ Loaded(m))
  /\ [][\A o \in OptsValues :
          (/\ initializationPromise # 0
           /\ iife[initializationPromise].pc = "rejected"
           /\ initSegmentation(o)) =>
             LET c == nextCall
                 unloaded == {m \in Models : ~Loaded(m)}
             IN /\ callAwaits'[c] # initializationPromise
                /\ unloaded # {} =>
                     /\ callAwaits'[c] = c
                     /\ iife'[c].pc \in {"encLoad", "decLoad"}
                     /\ unloaded \subseteq iife'[c].need
                     /\ \E m \in iife'[c].need :
                          loadCalls'[m] = loadCalls[m] + 1]_vars

\* a call made after a failed attempt loaded what was missing and resolved
C4_Witness ==
  \E p, c \in Calls :
    /\ p < c
    /\ iife[p].pc = "rejected"
    /\ iife[c].pc = "resolved"
    /\ iife[c].need # {}
    /\ callPc[c] = "resolved"
    /\ ~isInitializing

\* C5: with both backends loaded, initSegmentation() without options invokes
\* no loader, does not set the in-flight flag and leaves both backend
\* instances as they are; unless an initialization is in flight its promise
\* is resolved at once.
C5_FastPathFrame ==
  [][(/\ encoderSession # NullSession
      /\ samSession # NullSession
      /\ initSegmentation(NoOpts)) =>
        /\ loadCalls' = loadCalls
        /\ gateSets' = gateSets
        /\ isInitializing' = isInitializing
        /\ encoderSession' = encoderSession
        /\ samSession' = samSession
        /\ iife' = iife
        /\ ~isInitializing => callPc'[nextCall] = "resolved"]_vars

\* a call took the fast path
C5_Witness ==
  \E c \in Calls : callPc[c] = "resolved" /\ callAwaits[c] = 0
                   /\ iife[c].pc = "none"

\* C6 as claimed: with both backends loaded, a call with an explicit path for
\* exactly one backend loads that backend again (and only that one).
C6_AsClaimed ==
  [][\A m \in Models :
       (/\ encoderSession # NullSession
        /\ samSession # NullSession
        /\ initSegmentation(OnlyPath(m))) =>
          /\ loadCalls'[m] = loadCalls[m] + 1
          /\ loadCalls'[Other(m)] = loadCalls[Other(m)]]_vars

\* C6, amended: with both backends loaded and no initialization in flight, a
\* call with an explicit path for exactly one backend invokes the loader for
\* that backend only; when that load succeeds the new instance, loaded from
\* the supplied path, replaces the previous one and the body finishes; the
\* other backend is not loaded and its instance is left as it is.
C6_ReloadOneBackend ==
  /\ [][\A m \in Models :
          (/\ encoderSession # NullSession
           /\ samSession # NullSession
           /\ ~isInitializing
           /\ initSegmentation(OnlyPath(m))) =>
             /\ loadCalls'[m] = loadCalls[m] + 1
             /\ loadCalls'[Other(m)] = loadCalls[Other(m)]
             /\ iife'[nextCall].need = {m}
             /\ iife'[nextCall].pc \in {"encLoad", "decLoad"}
             /\ encoderSession' = encoderSession
             /\ samSession' = samSession]_vars
  /\ [][\A c \in Calls, m \in Models :
          (/\ iife[c].need = {m}
           /\ iife[c].opts = OnlyPath(m)
           /\ InFlight(c)
           /\ iife'[c].pc = "resolved") =>
             /\ SessionOf(m)' # SessionOf(m)
             /\ SessionOf(m)'.path = "custom"
             /\ SessionOf(m)'.gen = loadCalls[m]
             /\ SessionOf(Other(m))' = SessionOf(Other(m))
             /\ loadCalls' = loadCalls]_vars
  /\ [](\A c \in Calls, m \in Models :
          (iife[c].need = {m} /\ iife[c].opts = OnlyPath(m)) =>
             iife[c].loads[Other(m)] = 0)

\* a backend was reloaded from the supplied path beside an untouched other one
C6_Witness ==
  \E c \in Calls, m \in Models :
    /\ iife[c].need = {m}
    /\ iife[c].opts = OnlyPath(m)
    /\ iife[c].pc = "resolved"
    /\ SessionOf(m).path = "custom"
    /\ SessionOf(m).gen = 2
    /\ SessionOf(Other(m)).gen = 1


\* instrumentation: backend runs and preprocessing calls so far, in a task table
EncoderRuns(ts) == Cardinality({t \in Tasks : ts[t].ranEncoder})
DecoderRuns(ts) == Cardinality({t \in Tasks : ts[t].ranDecoder})
PreprocessCalls(ts) == Cardinality({t \in Tasks : ts[t].preprocessed})
FeedCalls(ts) == Cardinality({t \in Tasks : ts[t].feeds.built})

\* C7: a module-level segment() call made while the encoder or the decoder
\* backend is not loaded rejects with the precondition error, runs no
\* preprocessing, builds no feeds, invokes no backend and leaves the
\* embedding cache as it is.
C7_PreconditionError ==
  [][\A im \in Images, cl \in SamClickLists :
       (/\ (encoderSession = NullSession \/ samSession = NullSession)
        /\ segment(im, cl)) =>
          /\ tasks'[nextTask].pc = "rejected"
          /\ tasks'[nextTask].err = "precondition"
          /\ EncoderRuns(tasks') = EncoderRuns(tasks)
          /\ DecoderRuns(tasks') = DecoderRuns(tasks)
          /\ PreprocessCalls(tasks') = PreprocessCalls(tasks)
          /\ FeedCalls(tasks') = FeedCalls(tasks)
          /\ embeddingCache' = embeddingCache]_vars

\* segment() was refused while the encoder was loaded and the decoder was not
C7_Witness ==
  \E t \in Tasks :
    /\ tasks[t].kind = "segment"
    /\ tasks[t].err = "precondition"
    /\ encoderSession # NullSession
    /\ samSession = NullSession

\* C8: a session segment() on a live session with no clicks resolves with
\* null, sets the session's last mask to null, invokes no backend, runs no
\* preprocessing and builds no feeds, whether the backends are loaded or not.
C8_EmptyClicksNull ==
  [][\A h \in Handles, im \in Images :
       (/\ Created(h)
        /\ StateOf(h) # 0
        /\ Len(objs[StateOf(h)].clicks) = 0
        /\ sessionSegment(h, im)) =>
          /\ tasks'[nextTask].pc = "resolved"
          /\ tasks'[nextTask].result = NullMask
          /\ objs'[StateOf(h)].lastMask = NullMask
          /\ EncoderRuns(tasks') = EncoderRuns(tasks)
          /\ DecoderRuns(tasks') = DecoderRuns(tasks)
          /\ PreprocessCalls(tasks') = PreprocessCalls(tasks)
          /\ FeedCalls(tasks') = FeedCalls(tasks)
          /\ embeddingCache' = embeddingCache]_vars

\* a session whose segment() produced a mask had its clicks removed and its
\* next segment() resolved with null, leaving the last mask null
C8_Witness ==
  \E t1, t2 \in Tasks :
    /\ t1 < t2
    /\ tasks[t1].kind = "session" /\ tasks[t1].result = Bitmap(t1)
    /\ tasks[t2].kind = "session" /\ tasks[t2].pc = "resolved"
    /\ tasks[t2].result = NullMask
    /\ tasks[t2].obj = tasks[t1].obj
    /\ objs[tasks[t2].obj].lastMask = NullMask

\* C9 as claimed: buildSamFeeds is never called with an empty click list.
C9_AsClaimed ==
  \A t \in Tasks : tasks[t].feeds.built => Len(tasks[t].clicks) > 0

\* C9, amended: through a session segment(), which short-circuits first when
\* there are zero clicks, buildSamFeeds is never called with an empty click
\* list (the module-level segment() has no such short-circuit and passes an
\* empty click list on to it).
C9_SessionFeedsNeverEmpty ==
  \A t \in Tasks :
    (tasks[t].kind = "session" /\ tasks[t].feeds.built) =>
       /\ Len(tasks[t].clicks) > 0
       /\ Len(tasks[t].feeds.point_labels) = Len(tasks[t].clicks) + 1

\* a session segment() reached the feed builder, with its clicks
C9_Witness ==
  \E t \in Tasks :
    /\ tasks[t].kind = "session"
    /\ tasks[t].feeds.built
    /\ Len(tasks[t].clicks) > 0

\* C10: once a precomputeEmbedding() call has resolved with an identity, and
\* until the cache is cleared, the cache holds an entry for it, and a
\* segment() call for an image of that identity invokes no encoder run and no
\* preprocessing: when it goes on to the decoder, the embedding in its feeds
\* is the cached one.
C10_WarmCacheSkipsEncoder ==
  /\ [](warmed \subseteq DOMAIN embeddingCache)
  /\ [][\A im \in Images, cl \in SamClickLists :
          (ImageKey(im) \in warmed /\ segment(im, cl)) =>
             /\ EncoderRuns(tasks') = EncoderRuns(tasks)
             /\ PreprocessCalls(tasks') = PreprocessCalls(tasks)
             /\ ~tasks'[nextTask].ranEncoder
             /\ tasks'[nextTask].pc \in {"dec", "rejected"}
             /\ tasks'[nextTask].pc = "rejected" =>
                  tasks'[nextTask].err = "precondition"
             /\ tasks'[nextTask].pc = "dec" =>
                  /\ tasks'[nextTask].ranDecoder
                  /\ tasks'[nextTask].feeds.image_embeddings =
                       embeddingCache[ImageKey(im)].embedding]_vars

\* a precomputeEmbedding() ran the encoder and a later segment() for the same
\* identity went to the decoder without an encoder run
C10_Witness ==
  \E t1, t2 \in Tasks :
    /\ t1 < t2
    /\ tasks[t1].kind = "precompute" /\ tasks[t1].pc = "resolved"
    /\ tasks[t1].ranEncoder
    /\ tasks[t2].kind = "segment" /\ tasks[t2].key = tasks[t1].key
    /\ tasks[t2].ranDecoder /\ ~tasks[t2].ranEncoder
    /\ tasks[t2].feeds.image_embeddings = tasks[t1].embedding

\* a call of segment() or precomputeEmbedding() for image im that gets past
\* its precondition
CallFor(im) ==
  \/ ~SegmentPreconditionFails /\ \E cl \in SamClickLists : segment(im, cl)
  \/ ~PrecomputePreconditionFails /\ precomputeEmbedding(im)

\* C11 as claimed: after clearEmbeddingCache() the cache is empty, and a
\* segment() or precomputeEmbedding() call for an identity the clear removed
\* (the first one for it since the clear) runs the encoder again.
C11_AsClaimed ==
  /\ [][clearEmbeddingCache => DOMAIN embeddingCache' = {}]_vars
  /\ [][\A im \in CacheImages :
          (ImageKey(im) \in cleared /\ CallFor(im)) =>
             /\ tasks'[nextTask].ranEncoder
             /\ tasks'[nextTask].pc = "enc"]_vars

\* what the code does keep: the clear empties the cache, and a call for a
\* removed identity that finds no entry runs the encoder again
C11_ClearThenMiss ==
  /\ [][clearEmbeddingCache => DOMAIN embeddingCache' = {}]_vars
  /\ [][\A im \in CacheImages :
          (ImageKey(im) \in cleared /\ ~CacheHas(ImageKey(im)) /\ CallFor(im)) =>
             /\ tasks'[nextTask].ranEncoder
             /\ tasks'[nextTask].pc = "enc"]_vars

\* an identity was cached, the cache was cleared while a second encoder run
\* for it was in flight, that run put an entry back and a call started after
\* the clear used it without running the encoder
C11_StaleReuse ==
  \E t1, t2, t3 \in Tasks :
    /\ t1 < t2 /\ t2 < t3
    /\ tasks[t1].key = tasks[t3].key /\ tasks[t2].key = tasks[t3].key
    /\ tasks[t1].ranEncoder /\ tasks[t1].pc # "enc"
    /\ tasks[t2].ranEncoder /\ tasks[t2].pc # "enc"
    /\ tasks[t3].kind = "segment" /\ ~tasks[t3].ranEncoder
    /\ tasks[t3].ranDecoder
    /\ cleared = {}
    /\ warmed = {}

\* the dimensions a feed record was built with
FeedDims(f) == [originalWidth |-> f.orig_im_size[2],
                originalHeight |-> f.orig_im_size[1],
                den |-> {f.point_coords[i][j].den :
                           i \in 1..(Len(f.point_coords) - 1), j \in 1..2}]

\* C12: every embedding cache entry holds the original width and height of
\* the image instance whose encoder run produced its embedding; every feed
\* record is built with the dimensions of the instance that produced its
\* embedding, and on a cache hit segment() builds it from the stored
\* dimensions of the entry, whatever the dimensions of the image it is given.
C12_StoredDimensions ==
  /\ [](\A k \in DOMAIN embeddingCache :
          /\ embeddingCache[k].originalWidth =
               embeddingCache[k].embedding.image.width
          /\ embeddingCache[k].originalHeight =
               embeddingCache[k].embedding.image.height
          /\ ImageKey(embeddingCache[k].embedding.image).src = k.src)
  /\ [](\A t \in Tasks :
          tasks[t].feeds.built =>
            LET f == tasks[t].feeds
                src == f.image_embeddings.image
            IN FeedDims(f) = [originalWidth |-> src.width,
                              originalHeight |-> src.height,
                              den |-> {Max(src.width, src.height)}])
  /\ [][\A im \in CacheImages, cl \in SamClickLists :
          (~SegmentPreconditionFails /\ CacheHas(ImageKey(im))
           /\ segment(im, cl)) =>
             LET e == embeddingCache[ImageKey(im)]
             IN tasks'[nextTask].feeds =
                  buildSamFeeds(cl, e.embedding, e.originalWidth,
                                e.originalHeight)]_vars

\* a segment() call given an image of other dimensions than the instance
\* that was encoded hit the cache and built its feeds from the stored ones
C12_Witness ==
  \E t \in Tasks :
    /\ tasks[t].kind = "segment"
    /\ tasks[t].ranDecoder /\ ~tasks[t].ranEncoder
    /\ tasks[t].feeds.built
    /\ tasks[t].image.width # tasks[t].feeds.orig_im_size[2]
    /\ tasks[t].feeds.orig_im_size =
         <<tasks[t].feeds.image_embeddings.image.height,
           tasks[t].feeds.image_embeddings.image.width>>

\* the entry the encoder run of task t writes when it completes
EntryOf(t) ==
  [embedding |-> ExtractEmbedding(tasks[t].image, tasks[t].runInst),
   originalWidth |-> tasks[t].originalWidth,
   originalHeight |-> tasks[t].originalHeight]

\* C13 as claimed: an entry that is in the embedding cache is neither removed
\* nor replaced by another value by any operation but clearEmbeddingCache().
C13_AsClaimed ==
  [][\A k \in DOMAIN embeddingCache :
       \/ clearEmbeddingCache
       \/ k \in DOMAIN embeddingCache' /\ embeddingCache'[k] = embeddingCache[k]]_vars

\* C13, amended: no operation other than clearEmbeddingCache() removes an
\* entry, and no operation changes an entry except the completion of an
\* encoder run for the same identity (one that missed the cache before the
\* entry was inserted), which overwrites it with its own entry: another value
\* when that call was given an image instance other than the one the entry
\* was computed from.
C13_OnlyRedundantOverwrite ==
  [][\A k \in DOMAIN embeddingCache :
       \/ clearEmbeddingCache
       \/ /\ k \in DOMAIN embeddingCache'
          /\ \/ embeddingCache'[k] = embeddingCache[k]
             \/ \E t \in Tasks :
                  /\ EncoderDone(t)
                  /\ tasks[t].key = k
                  /\ tasks[t].ranEncoder /\ tasks[t].preprocessed
                  /\ tasks[t].image # embeddingCache[k].embedding.image
                  /\ embeddingCache'[k] = EntryOf(t)]_vars

\* an entry outlived a hit, a miss for another identity and a redundant
\* encoder run for its own identity that wrote an equal value
C13_Witness ==
  \E t1, t2 \in Tasks :
    /\ t1 # t2
    /\ tasks[t1].key = tasks[t2].key
    /\ tasks[t1].image = tasks[t2].image
    /\ tasks[t1].ranEncoder /\ tasks[t1].pc \in {"dec", "resolved"}
    /\ tasks[t2].ranEncoder /\ tasks[t2].pc \in {"dec", "resolved"}
    /\ tasks[t1].key \in DOMAIN embeddingCache
    /\ cleared = {}
    /\ \E t3 \in Tasks : ~tasks[t3].ranEncoder /\ tasks[t3].ranDecoder
                          /\ tasks[t3].key = tasks[t1].key

\* two encoder runs for one identity are in flight
Racing(t1, t2) ==
  /\ t1 # t2
  /\ tasks[t1].pc = "enc" /\ tasks[t2].pc = "enc"
  /\ tasks[t1].key = tasks[t2].key

\* C14 as claimed: two calls for the same uncached identity that are both in
\* flight have each invoked the encoder and carry the same original
\* dimensions.
C14_AsClaimed ==
  \A t1, t2 \in Tasks :
    Racing(t1, t2) =>
      /\ tasks[t1].ranEncoder /\ tasks[t2].ranEncoder
      /\ tasks[t1].originalWidth = tasks[t2].originalWidth
      /\ tasks[t1].originalHeight = tasks[t2].originalHeight

\* C14, amended: a segment()/precomputeEmbedding() call for an identity that
\* is not in the cache invokes the encoder whether or not a run for that
\* identity is in flight, so two such calls make two runs; each completing
\* run writes its own entry over whatever the cache holds for the identity,
\* so the cache has one entry for it, that of the run that completed last;
\* each write carries the dimensions of the image instance its own call was
\* given, the same dimensions when both calls were given the same instance.
C14_RedundantRuns ==
  /\ [](\A t1, t2 \in Tasks :
          Racing(t1, t2) =>
            /\ tasks[t1].ranEncoder /\ tasks[t2].ranEncoder
            /\ \A t \in {t1, t2} :
                 /\ tasks[t].originalWidth = tasks[t].image.width
                 /\ tasks[t].originalHeight = tasks[t].image.height
            /\ tasks[t1].image = tasks[t2].image =>
                 /\ tasks[t1].originalWidth = tasks[t2].originalWidth
                 /\ tasks[t1].originalHeight = tasks[t2].originalHeight)
  /\ [][\A im \in CacheImages :
          (~CacheHas(ImageKey(im)) /\ CallFor(im)) =>
             /\ tasks'[nextTask].ranEncoder
             /\ EncoderRuns(tasks') = EncoderRuns(tasks) + 1]_vars
  /\ [][\A t \in Tasks :
          EncoderDone(t) =>
             /\ DOMAIN embeddingCache' = DOMAIN embeddingCache \cup {tasks[t].key}
             /\ embeddingCache'[tasks[t].key] = EntryOf(t)
             /\ \A k \in DOMAIN embeddingCache \ {tasks[t].key} :
                  embeddingCache'[k] = embeddingCache[k]]_vars

\* two calls for one identity, given instances of different dimensions, both
\* ran the encoder, the one started second completing first: the entry is
\* that of the first call, whose run completed last
C14_Witness ==
  \E t1, t2 \in Tasks :
    /\ t1 < t2
    /\ tasks[t1].key = tasks[t2].key
    /\ tasks[t1].image # tasks[t2].image
    /\ tasks[t1].ranEncoder /\ tasks[t1].pc \in {"dec", "resolved"}
    /\ tasks[t2].ranEncoder /\ tasks[t2].pc \in {"dec", "resolved"}
    /\ tasks[t1].key \in DOMAIN embeddingCache
    /\ embeddingCache[tasks[t1].key].embedding.image = tasks[t1].image
    /\ embeddingCache[tasks[t1].key].originalWidth = tasks[t1].originalWidth

\* ---------------------------------------------------------- session store
\* handle h was created and its identifier is not in the store
Removed(h) == Created(h) /\ handleSid[h] \notin DOMAIN sessionStates

\* handle h was created and its identifier is in the store
Live(h) == Created(h) /\ handleSid[h] \in DOMAIN sessionStates

\* a call of a synchronous method of handle h
SyncCall(h) ==
  \/ \E a \in ClickArgs : addClick(h, a)
  \/ removeLastClick(h)
  \/ reset(h)
  \/ getClicks(h)
  \/ getClickCount(h)
  \/ getLastMask(h)

storeVars == <<sessionStates, objs, handleSid, nextSession>>

OthersKept(h) ==
  \A g \in Handles \ {h} :
    Live(g) => /\ Live(g)'
               /\ StateOf(g)' = StateOf(g)
               /\ objs'[StateOf(g)] = objs[StateOf(g)]

C17_PopEmptyNoOp ==
  [][\A h \in Handles :
       (/\ Live(h)
        /\ objs[StateOf(h)].clicks = <<>>
        /\ removeLastClick(h)) =>
          /\ ret'.err = "none"
          /\ objs'[StateOf(h)].clicks = <<>>
          /\ objs'[StateOf(h)].lastMask = objs[StateOf(h)].lastMask
          /\ UNCHANGED <<gateVars, storeVars, embeddingCache, tasks, nextTask,
                         now>>]_vars

\* removeLastClick() found an empty list in a live session whose last mask
\* is not null
C17_Witness ==
  /\ ret = PopEmpty
  /\ \E h \in Handles :
       /\ Live(h)
       /\ objs[StateOf(h)].clicks = <<>>
       /\ objs[StateOf(h)].lastMask # NullMask

\* C18 as claimed: createSession() never draws the identifier of a session
\* that is in the store, and leaves every session in the store with its state
\* object, clicks and last mask.
C18_AsClaimed ==
  [][\A r \in Rand :
       createSession(ImgA, r) =>
          /\ [t |-> now, r |-> r] \notin DOMAIN sessionStates
          /\ \A k \in DOMAIN sessionStates :
               /\ k \in DOMAIN sessionStates'
               /\ sessionStates'[k] = sessionStates[k]
               /\ objs'[sessionStates[k]] = objs[sessionStates[k]]]_vars

\* what the constructor does keep: it leaves every state object as it is and
\* every session in the store whose identifier differs from the one it draws
C18_OthersKept ==
  [][\A r \in Rand :
       createSession(ImgA, r) =>
          /\ \A k \in DOMAIN sessionStates \ {[t |-> now, r |-> r]} :
               /\ k \in DOMAIN sessionStates'
               /\ sessionStates'[k] = sessionStates[k]
          /\ \A h \in Handles : Created(h) => objs'[h] = objs[h]]_vars

\* two sessions hold one identifier: the store maps it to the state object
\* of the second, the clicks of the first are in an object no session reaches
C18_Collision ==
  /\ Created(1) /\ Created(2)
  /\ handleSid[1] = handleSid[2]
  /\ StateOf(1) = 2
  /\ objs[1].clicks # <<>>
  /\ objs[2].clicks = <<>>

\* the handles whose calls reach state object o
HandlesOf(o) == {h \in Handles : Live(h) /\ StateOf(h) = o}

\* C19: the click list of a live session is a stack that is empty at
\* creation; addClick pushes the click, its kind include unless given, at
\* the end; removeLastClick pops the last of the remaining clicks; reset
\* empties it; getClicks returns its content in insertion order and
\* getClickCount its length; nothing but an addClick, removeLastClick or
\* reset call that reaches the session's state object changes it.
C19_ClickStack ==
  /\ [][\A h \in Handles, r \in Rand :
          (h = nextSession /\ createSession(ImgA, r)) =>
             /\ Live(h)'
             /\ objs'[StateOf(h)'].clicks = <<>>]_vars
  /\ [][\A h \in Handles, a \in ClickArgs :
          (Live(h) /\ addClick(h, a)) =>
             /\ ret' = Ok
             /\ objs'[StateOf(h)].clicks =
                  objs[StateOf(h)].clicks \o
                    <<[x |-> a.x, y |-> a.y,
                       type |-> IF a.type = "undefined" THEN "include"
                                                         ELSE a.type]>>]_vars
  /\ [][\A h \in Handles :
          (Live(h) /\ removeLastClick(h)) =>
             LET old == objs[StateOf(h)].clicks
                 new == objs'[StateOf(h)].clicks
             IN /\ ret'.err = "none"
                /\ old = <<>> => new = <<>>
                /\ old # <<>> => old = new \o <<old[Len(old)]>>]_vars
  /\ [][\A h \in Handles :
          (Live(h) /\ reset(h)) => objs'[StateOf(h)].clicks = <<>>]_vars
  /\ [][\A h \in Handles :
          (Live(h) /\ getClicks(h)) =>
             /\ ret' = [err |-> "none",
                        value |-> [NoValue EXCEPT !.kind = "clicks",
                                     !.clicks = objs[StateOf(h)].clicks]]
             /\ objs' = objs]_vars
  /\ [][\A h \in Handles :
          (Live(h) /\ getClickCount(h)) =>
             /\ ret' = [err |-> "none",
                        value |-> [NoValue EXCEPT !.kind = "count",
                                     !.count = Len(objs[StateOf(h)].clicks)]]
             /\ objs' = objs]_vars
  /\ [][\A o \in Handles :
          (HandlesOf(o) # {} /\ objs'[o].clicks # objs[o].clicks) =>
             \E h \in HandlesOf(o) :
               \/ \E a \in ClickArgs : addClick(h, a)
               \/ removeLastClick(h)
               \/ reset(h)]_vars

\* getClicks() returned two clicks in the order they were added, the first
\* with the default kind; a live session holds one click
C19_Witness ==
  /\ ret.err = "none"
  /\ ret.value.kind = "clicks"
  /\ ret.value.clicks = <<[x |-> 1, y |-> 1, type |-> "include"],
                          [x |-> 2, y |-> 1, type |-> "exclude"]>>
  /\ \E h \in Handles : Live(h) /\ objs[StateOf(h)].clicks = ret.value.clicks
  /\ \E h \in Handles : Live(h) /\ Len(objs[StateOf(h)].clicks) = 1

\* C20: reset() on a live session leaves it with an empty click list and a
\* null last mask, and in the store with the same state object; a live
\* session accepts addClick and its segment does not fail with the not-found
\* error.
C20_ResetKeepsActive ==
  /\ [][\A h \in Handles :
          (Live(h) /\ reset(h)) =>
             /\ ret' = Ok
             /\ objs'[StateOf(h)].clicks = <<>>
             /\ objs'[StateOf(h)].lastMask = NullMask
             /\ Live(h)'
             /\ StateOf(h)' = StateOf(h)
             /\ sessionStates' = sessionStates]_vars
  /\ [][\A h \in Handles, a \in ClickArgs :
          (Live(h) /\ addClick(h, a)) => ret' = Ok /\ Live(h)']_vars
  /\ [][\A h \in Handles :
          (Live(h) /\ sessionSegment(h, ImgA)) =>
             tasks'[nextTask].err = "none"]_vars

\* a session whose segment() had produced a mask was reset, is in the store
\* with a null last mask and has accepted a click since
C20_Witness ==
  \E t \in Tasks, h \in Handles :
    /\ tasks[t].kind = "session"
    /\ tasks[t].result = Bitmap(t)
    /\ Live(h)
    /\ StateOf(h) = tasks[t].obj
    /\ objs[StateOf(h)].lastMask = NullMask
    /\ Len(objs[StateOf(h)].clicks) = 1
    /\ ret = Ok

\* -------------------------------------------------------- functions of utils/
\* C24: maskToImageData maps a buffer of width * height scalars to a bitmap
\* of the same width and height, of 4 bytes a pixel, in which the alpha of
\* pixel i is 255 exactly when mask[i] > 0 and 0 otherwise and the R, G and B
\* bytes are 0; [0, 1, -1, 0.5] over 2x2 gives alpha [0, 255, 0, 255].
C24_AlphaFromSign ==
  pure.fn = "maskToImageData" =>
    LET n == pure.width * pure.height
        d == pure.out.data
    IN /\ pure.out.width = pure.width
       /\ pure.out.height = pure.height
       /\ Len(d) = 4 * n
       /\ \A i \in 1..n :
            /\ d[4 * i] = IF pure.mask[i] > 0 THEN 255 ELSE 0
            /\ d[4 * i - 3] = 0 /\ d[4 * i - 2] = 0 /\ d[4 * i - 1] = 0
       /\ (pure.mask = <<0, 2, -2, 1>> /\ pure.width = 2) =>
            [i \in 1..4 |-> d[4 * i]] = <<0, 255, 0, 255>>

\* the buffer [0, 1, -1, 0.5] over 2x2 was converted
C24_Witness ==
  /\ pure.fn = "maskToImageData"
  /\ pure.mask = <<0, 2, -2, 1>>
  /\ pure.width = 2 /\ pure.height = 2
  /\ pure.out.data = <<0, 0, 0, 0, 0, 0, 0, 255, 0, 0, 0, 0, 0, 0, 0, 255>>

\* C25: for a click list of length n, buildSamFeeds produces n + 1 points:
\* point i is click i scaled, labelled 1 for an include click and 0 for an
\* exclude click, in the order of the list; the extra point is last, at (0,0)
\* with label -1; the coordinate tensor has shape [1, n+1, 2] and the label
\* tensor shape [1, n+1].
C25_PointsAndPadding ==
  pure.fn = "buildSamFeeds" =>
    LET n == Len(pure.clicks)
        f == pure.out
        m == Max(pure.width, pure.height)
    IN /\ Len(f.point_coords) = n + 1
       /\ Len(f.point_labels) = n + 1
       /\ \A i \in 1..n :
            /\ f.point_coords[i][1].num * m
                 = pure.clicks[i].x * 1024 * f.point_coords[i][1].den
            /\ f.point_coords[i][2].num * m
                 = pure.clicks[i].y * 1024 * f.point_coords[i][2].den
            /\ pure.clicks[i].type = "include" => f.point_labels[i] = 1
            /\ pure.clicks[i].type = "exclude" => f.point_labels[i] = 0
       /\ f.point_coords[n + 1][1].num = 0
       /\ f.point_coords[n + 1][2].num = 0
       /\ f.point_labels[n + 1] = -1
       /\ f.point_coords_dims = <<1, n + 1, 2>>
       /\ f.point_labels_dims = <<1, n + 1>>

\* an exclude click then an include click at another place were fed
C25_Witness ==
  /\ pure.fn = "buildSamFeeds"
  /\ Len(pure.clicks) = 2
  /\ pure.clicks[1].type = "exclude" /\ pure.clicks[2].type = "include"
  /\ pure.clicks[1].x = 3 /\ pure.clicks[2].x = 1
  /\ pure.width = 4
  /\ pure.out.point_labels = <<0, 1, -1>>
  /\ pure.out.point_coords_dims = <<1, 3, 2>>

\* C27: the factor the feed builder applies to click coordinates equals the
\* factor the preprocessor applied to the image of the same original width
\* and height when its edge length is the encoder input size: both are
\* ENCODER_INPUT_SIZE / max(originalWidth, originalHeight).
C27_SameScale ==
  (pure.fn = "preprocessImageForEncoder"
     /\ pure.targetSize = ENCODER_INPUT_SIZE) =>
    LET w == pure.out.originalWidth
        h == pure.out.originalHeight
    IN /\ SameFraction(pure.out.scale, samScale(w, h))
       /\ SameFraction(samScale(w, h),
                       [num |-> ENCODER_INPUT_SIZE, den |-> Max(w, h)])
       /\ buildSamFeeds(<<[x |-> 1, y |-> 1, clickType |-> 1]>>, NoEmbedding,
                        w, h).point_coords[1][1].num * pure.out.scale.den
            = pure.out.scale.num
                * buildSamFeeds(<<[x |-> 1, y |-> 1, clickType |-> 1]>>,
                                NoEmbedding, w, h).point_coords[1][1].den

\* a 3x2 canvas was preprocessed to the encoder input size
C27_Witness ==
  /\ pure.fn = "preprocessImageForEncoder"
  /\ pure.targetSize = ENCODER_INPUT_SIZE
  /\ pure.image.width = 3 /\ pure.image.height = 2
  /\ pure.out.scale = [num |-> 1024, den |-> 3]
  /\ pure.out.err = "none"

\* C28 as claimed: for every image of positive dimensions and every edge
\* length T the preprocessor returns a tensor of shape [1,3,T,T], and the
\* longer side is resized to exactly T pixels.
C28_AsClaimed ==
  pure.fn = "preprocessImageForEncoder" =>
    /\ pure.out.err = "none"
    /\ pure.out.dims = <<1, 3, pure.targetSize, pure.targetSize>>
    /\ Max(pure.out.newWidth, pure.out.newHeight) = pure.targetSize

\* C28, what the code guarantees: the longer side is resized to exactly T
\* pixels, and whenever the shorter side does not round to 0 the tensor has
\* shape [1,3,T,T]; when it rounds to 0 the call throws instead.
C28_ShapeUnlessEmpty ==
  pure.fn = "preprocessImageForEncoder" =>
    /\ Max(pure.out.newWidth, pure.out.newHeight) = pure.targetSize
    /\ (pure.out.newWidth > 0 /\ pure.out.newHeight > 0) =>
         /\ pure.out.err = "none"
         /\ pure.out.dims = <<1, 3, pure.targetSize, pure.targetSize>>
    /\ (pure.out.newWidth = 0 \/ pure.out.newHeight = 0) =>
         pure.out.err = "IndexSizeError"

\* a 2049x1 canvas preprocessed to the encoder input size: the resized canvas
\* is 1024x0 and the call throws
C28_EmptyResize ==
  /\ pure.fn = "preprocessImageForEncoder"
  /\ pure.targetSize = ENCODER_INPUT_SIZE
  /\ pure.image.width = 2049 /\ pure.image.height = 1
  /\ pure.out.newWidth = 1024 /\ pure.out.newHeight = 0
  /\ pure.out.err = "IndexSizeError"

\* --------------------------------------------------------- decoder feeds
\* C26: the decoder feeds of a segment call do not depend on a mask produced
\* before: two calls with the same clicks and the same cached embedding and
\* dimensions have identical feeds whatever the last mask of the session was
\* when they were built, the prior-mask tensor being all zeros and the
\* has-mask flag 0 in every call.
C26_NoPriorMask ==
  /\ \A t \in Tasks :
       tasks[t].feeds.built =>
         /\ tasks[t].feeds.mask_input.fill = 0
         /\ tasks[t].feeds.mask_input.dims = <<1, 1, SAM_MASK_SIZE, SAM_MASK_SIZE>>
         /\ tasks[t].feeds.has_mask_input = 0
  /\ \A t1, t2 \in Tasks :
       (/\ tasks[t1].feeds.built /\ tasks[t2].feeds.built
        /\ tasks[t1].clicks = tasks[t2].clicks
        /\ tasks[t1].embedding = tasks[t2].embedding
        /\ tasks[t1].originalWidth = tasks[t2].originalWidth
        /\ tasks[t1].originalHeight = tasks[t2].originalHeight)
       => tasks[t1].feeds = tasks[t2].feeds

\* the session's first call was fed with no last mask, its second call, with
\* the same clicks and the cached embedding, when the last mask was the
\* bitmap of the first
C26_Witness ==
  /\ tasks[1].kind = "session" /\ tasks[2].kind = "session"
  /\ tasks[1].obj = tasks[2].obj
  /\ tasks[1].pc = "resolved" /\ tasks[1].feeds.built
  /\ tasks[1].prior = NullMask
  /\ tasks[2].feeds.built
  /\ tasks[2].prior = Bitmap(1)
  /\ tasks[2].clicks = tasks[1].clicks
  /\ tasks[2].embedding = tasks[1].embedding
  /\ tasks[2].feeds = tasks[1].feeds

\* ----------------------------------------------------- failing backend runs
\* C23: when the encoder or decoder run of a session segment() call with at
\* least one click fails, the call rejects, that step invokes no backend and
\* changes neither the session store, a session's clicks or last mask, nor
\* the cache, and the rejected call never takes another step (no retry).
C23_FailureRejects ==
  [][\A t \in Tasks :
       /\ (/\ tasks[t].kind = "session"
           /\ tasks[t].pc \in {"enc", "dec"}
           /\ tasks'[t].err = "backend")
          => /\ tasks'[t].pc = "rejected"
             /\ objs' = objs
             /\ sessionStates' = sessionStates
             /\ embeddingCache' = embeddingCache
             /\ tasks'[t].ranEncoder = tasks[t].ranEncoder
             /\ tasks'[t].ranDecoder = tasks[t].ranDecoder
             /\ \A u \in Tasks \ {t} : tasks'[u] = tasks[u]
       /\ (tasks[t].kind = "session" /\ tasks[t].err = "backend")
          => tasks'[t] = tasks[t]]_vars

\* the decoder run of the session's second call failed after its first call
\* had resolved: the call is rejected, the clicks and the bitmap of the first
\* call are still there
C23_Witness ==
  /\ tasks[1].kind = "session" /\ tasks[1].pc = "resolved"
  /\ tasks[2].kind = "session" /\ tasks[2].obj = tasks[1].obj
  /\ tasks[2].pc = "rejected" /\ tasks[2].err = "backend"
  /\ tasks[2].ranDecoder
  /\ tasks[2].prior = Bitmap(1)
  /\ objs[tasks[2].obj].lastMask = Bitmap(1)
  /\ Len(objs[tasks[2].obj].clicks) >= 1
  /\ Len(tasks[2].clicks) >= 1

\* ------------------------------------------------------ the stored bitmap
\* C21 as claimed: when a session segment() call with at least one click
\* resolves, it returns the bitmap of that call, and the last mask of the
\* session that was called is that bitmap, so that getLastMask() on it
\* returns it.
C21_AsClaimed ==
  [][\A t \in Tasks, h \in Handles :
       (/\ tasks[t].kind = "session" /\ tasks[t].handle = h
        /\ tasks[t].pc = "dec" /\ tasks'[t].pc = "resolved")
       => /\ tasks'[t].result = Bitmap(t)
          /\ Live(h)'
          /\ objs'[StateOf(h)'].lastMask = Bitmap(t)]_vars

\* C21, what the code guarantees: the call returns the bitmap of that call
\* and stores it in the state object it read when it started; if the session
\* is then still in the store with that state object, its last mask is that
\* bitmap, and getLastMask() on a session in the store returns its last mask.
C21_StoredAndReturned ==
  /\ [][\A t \in Tasks, h \in Handles :
          (/\ tasks[t].kind = "session" /\ tasks[t].handle = h
           /\ tasks[t].pc = "dec" /\ tasks'[t].pc = "resolved")
          => /\ tasks'[t].result = Bitmap(t)
             /\ objs'[tasks[t].obj].lastMask = Bitmap(t)
             /\ objs'[tasks[t].obj].clicks = objs[tasks[t].obj].clicks
             /\ (handleSid[h] \in DOMAIN sessionStates
                   /\ sessionStates[handleSid[h]] = tasks[t].obj)
                => /\ Live(h)'
                   /\ objs'[StateOf(h)'].lastMask = Bitmap(t)]_vars
  /\ [][\A h \in Handles :
          (handleSid[h] \in DOMAIN sessionStates /\ getLastMask(h))
          => /\ ret'.err = "none"
             /\ ret'.value.kind = "mask"
             /\ ret'.value.mask
                  = objs[sessionStates[handleSid[h]]].lastMask
             /\ objs' = objs]_vars

\* the call of a session resolved with its bitmap and getLastMask() on the
\* session, still in the store, returned that bitmap
C21_Witness ==
  \E t \in Tasks, h \in Handles :
    /\ tasks[t].kind = "session" /\ tasks[t].handle = h
    /\ tasks[t].pc = "resolved" /\ tasks[t].result = Bitmap(t)
    /\ Len(tasks[t].clicks) >= 1
    /\ Live(h) /\ StateOf(h) = tasks[t].obj
    /\ objs[tasks[t].obj].lastMask = Bitmap(t)
    /\ ret = [err |-> "none",
              value |-> [NoValue EXCEPT !.kind = "mask", !.mask = Bitmap(t)]]

\* the session was disposed of while its call was in flight: the call
\* resolved with its bitmap and getLastMask() on the session throws
C21_DisposedInFlight ==
  \E t \in Tasks, h \in Handles :
    /\ tasks[t].kind = "session" /\ tasks[t].handle = h
    /\ tasks[t].pc = "resolved" /\ tasks[t].result = Bitmap(t)
    /\ Removed(h)
    /\ ret = NotFoundError

\* ------------------------------------------------------ precomputeEmbedding
\* C22: precomputeEmbedding() never invokes the decoder; on a cache miss it
\* starts one encoder run, and when it resolves the cache holds an entry
\* under the identity it returns, no further encoder run having been started;
\* on a cache hit it returns the identity without an encoder run and without
\* changing the cache.
C22_EncodeAndCacheOnly ==
  /\ [](\A t \in Tasks :
          tasks[t].kind = "precompute" =>
            /\ ~tasks[t].ranDecoder
            /\ ~tasks[t].feeds.built
            /\ tasks[t].pc # "dec")
  /\ [][\A im \in Images :
          (encoderSession # NullSession /\ precomputeEmbedding(im)) =>
            /\ embeddingCache' = embeddingCache
            /\ DecoderRuns(tasks') = DecoderRuns(tasks)
            /\ ImageKey(im) \notin DOMAIN embeddingCache =>
                 /\ tasks'[nextTask].pc = "enc"
                 /\ tasks'[nextTask].key = ImageKey(im)
                 /\ EncoderRuns(tasks') = EncoderRuns(tasks) + 1
            /\ ImageKey(im) \in DOMAIN embeddingCache =>
                 /\ tasks'[nextTask].pc = "resolved"
                 /\ tasks'[nextTask].key = ImageKey(im)
                 /\ ~tasks'[nextTask].ranEncoder
                 /\ EncoderRuns(tasks') = EncoderRuns(tasks)]_vars
  /\ [][\A t \in Tasks :
          (/\ tasks[t].kind = "precompute" /\ tasks[t].pc = "enc"
           /\ tasks'[t].pc # "enc" /\ tasks'[t].err = "none")
          => /\ tasks'[t].pc = "resolved"
             /\ tasks'[t].key = tasks[t].key
             /\ tasks[t].key \in DOMAIN embeddingCache'
             /\ embeddingCache'[tasks[t].key].embedding = tasks'[t].embedding
             /\ EncoderRuns(tasks') = EncoderRuns(tasks)
             /\ DecoderRuns(tasks') = DecoderRuns(tasks)]_vars

\* one precomputeEmbedding() missed, ran the encoder and resolved with its
\* entry in the cache, a later one for the same identity hit and resolved
\* without an encoder run
C22_Witness ==
  /\ tasks[1].kind = "precompute" /\ tasks[1].pc = "resolved"
  /\ tasks[1].ranEncoder
  /\ tasks[2].kind = "precompute" /\ tasks[2].pc = "resolved"
  /\ ~tasks[2].ranEncoder
  /\ tasks[2].key = tasks[1].key
  /\ tasks[1].key \in DOMAIN embeddingCache
  /\ embeddingCache[tasks[1].key].embedding = tasks[1].embedding

\* ------------------------------------------------- reloading the encoder
\* C29 as claimed: the embedding that segment() and precomputeEmbedding()
\* cache and pass on is extracted from the run result with the output name
\* of the encoder instance that executed the run, also when the encoder is
\* replaced while the run is in flight.
C29_AsClaimed ==
  /\ \A k \in DOMAIN embeddingCache :
       embeddingCache[k].embedding.nameOf = embeddingCache[k].embedding.by
  /\ \A t \in Tasks :
       tasks[t].embedding.nameOf = tasks[t].embedding.by

\* C29, what the code does: the run result is read with the output name of
\* the instance that is the encoder when the run completes.
C29_NameOfCurrentEncoder ==
  [][\A t \in Tasks :
       (tasks[t].pc = "enc" /\ tasks'[t].pc \in {"dec", "resolved"})
       => /\ tasks'[t].embedding.by = tasks[t].runInst
          /\ tasks'[t].embedding.nameOf = encoderSession.gen
          /\ embeddingCache'[tasks[t].key].embedding = tasks'[t].embedding]_vars

\* a run executed by the first encoder instance completed after the second
\* had replaced it: the cached embedding was read from its result with the
\* output name of the second
C29_WrongInstance ==
  \E t \in Tasks :
    /\ tasks[t].ranEncoder /\ tasks[t].runInst = 1
    /\ tasks[t].embedding.by = 1 /\ tasks[t].embedding.nameOf = 2
    /\ tasks[t].key \in DOMAIN embeddingCache
    /\ embeddingCache[tasks[t].key].embedding = tasks[t].embedding

\* C30: a reload of the encoder through initSegmentation() leaves the
\* embedding cache unchanged, and a later segment() for an identity in the
\* cache reuses the entry, computed by whichever instance, without an
\* encoder run.
C30_ReloadKeepsCache ==
  /\ [][(nextCall' # nextCall \/ encoderSession' # encoderSession
          \/ iife' # iife \/ callPc' # callPc)
        => embeddingCache' = embeddingCache]_vars
  /\ [][\A cl \in CacheClickLists :
          (/\ ImageKey(ImgA) \in DOMAIN embeddingCache
           /\ encoderSession # NullSession /\ samSession # NullSession
           /\ segment(ImgA, cl))
          => /\ tasks'[nextTask].pc = "dec"
             /\ ~tasks'[nextTask].ranEncoder
             /\ ~tasks'[nextTask].preprocessed
             /\ tasks'[nextTask].feeds.image_embeddings
                  = embeddingCache[ImageKey(ImgA)].embedding
             /\ EncoderRuns(tasks') = EncoderRuns(tasks)
             /\ embeddingCache' = embeddingCache]_vars

\* the entry was computed by the first encoder instance; after the second
\* replaced it a segment() call went to the decoder with that entry and
\* without an encoder run
C30_Witness ==
  \E t \in Tasks :
    /\ encoderSession.gen = 2
    /\ tasks[t].kind = "segment"
    /\ tasks[t].hitInst = 2
    /\ ~tasks[t].ranEncoder /\ tasks[t].ranDecoder
    /\ tasks[t].feeds.image_embeddings.by = 1
    /\ tasks[t].feeds.image_embeddings.nameOf = 1
    /\ tasks[t].key \in DOMAIN embeddingCache
    /\ embeddingCache[tasks[t].key].embedding = tasks[t].feeds.image_embeddings

\* ------------------------------------------------- the resized canvas
\* C34 as claimed: for every image of positive width and height both resized
\* dimensions, round(w*T/max(w,h)) and round(h*T/max(w,h)), lie in 1..T, so
\* that the resized canvas is never empty and every normalized pixel is
\* written inside the T x T buffer.
C34_AsClaimed ==
  pure.fn = "preprocessImageForEncoder" =>
    /\ pure.out.newWidth \in 1..pure.targetSize
    /\ pure.out.newHeight \in 1..pure.targetSize
    /\ pure.out.err = "none"

\* C34, what the code guarantees: both resized dimensions lie in 0..T (no
\* pixel is written outside the buffer), the shorter one is 0 exactly when
\* twice the shorter side times T is less than the longer side, and the
\* pixels are read only when neither is 0.
C34_WithinBuffer ==
  pure.fn = "preprocessImageForEncoder" =>
    LET w == pure.image.width
        h == pure.image.height
        T == pure.targetSize
    IN /\ pure.out.newWidth \in 0..T
       /\ pure.out.newHeight \in 0..T
       /\ pure.out.newWidth = 0 <=> 2 * w * T < Max(w, h)
       /\ pure.out.newHeight = 0 <=> 2 * h * T < Max(w, h)
       /\ pure.out.err = "none" <=>
            (pure.out.newWidth >= 1 /\ pure.out.newHeight >= 1)

\* a 1x2049 canvas preprocessed to the encoder input size: the resized
\* canvas is 0x1024
C34_EmptyCanvas ==
  /\ pure.fn = "preprocessImageForEncoder"
  /\ pure.image.width = 1 /\ pure.image.height = 2049
  /\ pure.targetSize = ENCODER_INPUT_SIZE
  /\ pure.out.newWidth = 0 /\ pure.out.newHeight = 1024
  /\ pure.out.err = "IndexSizeError"

\* ------------------------------------------------- removed identifiers
\* C31 as claimed: once the identifier of a session has been removed from
\* the store it never reappears in it; a session segment() call started
\* before the removal and completing after it resolves with its bitmap
\* without re-inserting the session, and the operations on the handle keep
\* failing with not-found.
C31_AsClaimed ==
  /\ [][\A h \in Handles :
          (h < nextSession /\ handleSid[h] \notin DOMAIN sessionStates)
          => handleSid'[h] \notin DOMAIN sessionStates']_vars
  /\ [][\A h \in Handles :
          (/\ \E t \in Tasks : tasks[t].handle = h /\ tasks[t].err = "notfound"
           /\ SyncCall(h))
          => ret' = NotFoundError]_vars

\* C31, what the code guarantees: no step but the creation of a session
\* puts an identifier into the store; a session segment() call that
\* completes after its session was removed resolves with its bitmap and
\* leaves the store as it is; while the identifier is out of the store every
\* operation on the handle fails with not-found.
C31_OnlyCreationInserts ==
  /\ [][nextSession' = nextSession
        => DOMAIN sessionStates' \subseteq DOMAIN sessionStates]_vars
  /\ [][\A t \in Tasks :
          (/\ tasks[t].kind = "session" /\ tasks[t].pc = "dec"
           /\ tasks'[t].pc = "resolved")
          => /\ tasks'[t].result = Bitmap(t)
             /\ sessionStates' = sessionStates
             /\ handleSid' = handleSid]_vars
  /\ [][\A h \in Handles :
          (h < nextSession /\ handleSid[h] \notin DOMAIN sessionStates
           /\ SyncCall(h))
          => ret' = NotFoundError]_vars

\* a call on the first session was rejected because the session had been
\* removed; a second session was then created with the same identifier, and
\* the identifier of the first is in the store again, with the state of the
\* second
C31_Reappears ==
  /\ \E t \in Tasks :
       /\ tasks[t].kind = "session" /\ tasks[t].handle = 1
       /\ tasks[t].err = "notfound"
  /\ nextSession > 2
  /\ handleSid[2] = handleSid[1]
  /\ handleSid[1] \in DOMAIN sessionStates
  /\ sessionStates[handleSid[1]] = 2

\* the call of a session resolved with its bitmap after the session had been
\* removed, and nothing was re-inserted: the store is empty
C31_ResolvedAfterRemoval ==
  \E t \in Tasks :
    /\ tasks[t].kind = "session" /\ tasks[t].handle = 1
    /\ tasks[t].pc = "resolved" /\ tasks[t].result = Bitmap(t)
    /\ objs[tasks[t].obj].lastMask = Bitmap(t)
    /\ DOMAIN sessionStates = {}
    /\ nextSession = 2

\* ------------------------------------------------ the clicks of a call
\* C32: the clicks a session segment() call sends to the decoder are the
\* click list of the session at the moment of the call: addClick,
\* removeLastClick or reset on the session while the encoder or decoder run
\* is in flight do not alter the decoder feed of that call.
C32_ClicksOfTheCall ==
  /\ [][\A h \in Handles :
          (/\ h < nextSession /\ handleSid[h] \in DOMAIN sessionStates
           /\ Len(objs[sessionStates[handleSid[h]]].clicks) > 0
           /\ sessionSegment(h, ImgA))
          => tasks'[nextTask].clicks
               = SamClicks(objs[sessionStates[handleSid[h]]].clicks)]_vars
  /\ [][\A t \in Tasks :
          (tasks[t].kind = "session" /\ tasks[t].pc \in {"enc", "dec"})
          => /\ tasks'[t].clicks = tasks[t].clicks
             /\ tasks[t].feeds.built => tasks'[t].feeds = tasks[t].feeds
             /\ (tasks[t].pc = "enc" /\ tasks'[t].pc = "dec")
                => LET n == Len(tasks[t].clicks)
                       f == tasks'[t].feeds
                   IN /\ f.built
                      /\ Len(f.point_coords) = n + 1
                      /\ Len(f.point_labels) = n + 1
                      /\ \A i \in 1..n :
                           /\ f.point_labels[i] = tasks[t].clicks[i].clickType
                           /\ SameFraction(f.point_coords[i][1],
                                Times(tasks[t].clicks[i].x,
                                      samScale(tasks[t].originalWidth,
                                               tasks[t].originalHeight)))
                           /\ SameFraction(f.point_coords[i][2],
                                Times(tasks[t].clicks[i].y,
                                      samScale(tasks[t].originalWidth,
                                               tasks[t].originalHeight)))]_vars

\* a call made with one click is in its decoder run, after an encoder run;
\* the session has two clicks by now and the feed of the call has the one
\* click of the call and the padding point
C32_Witness ==
  \E t \in Tasks :
    /\ tasks[t].kind = "session" /\ tasks[t].pc = "dec"
    /\ tasks[t].ranEncoder
    /\ Len(tasks[t].clicks) = 1
    /\ Len(objs[tasks[t].obj].clicks) = 2
    /\ handleSid[tasks[t].handle] \in DOMAIN sessionStates
    /\ sessionStates[handleSid[tasks[t].handle]] = tasks[t].obj
    /\ tasks[t].feeds.built
    /\ Len(tasks[t].feeds.point_labels) = 2
    /\ tasks[t].feeds.point_labels[1] = tasks[t].clicks[1].clickType

\* --------------------------------------------- the identity of a session
\* C33: the image identity stored in a session's state is set at creation
\* and changed by no operation; a session segment() call looks the embedding
\* up, and stores it, under the identity of the image argument of that call,
\* not under the stored identity, so that a call with another image than
\* the one of the creation segments the image passed.
C33_IdentityOfTheArgument ==
  /\ [][\A o \in Handles :
          objs[o].imageKey # NoKey => objs'[o].imageKey = objs[o].imageKey]_vars
  /\ [][\A h \in Handles, im \in Images :
          (/\ h < nextSession /\ handleSid[h] \in DOMAIN sessionStates
           /\ Len(objs[sessionStates[handleSid[h]]].clicks) > 0
           /\ encoderSession # NullSession /\ samSession # NullSession
           /\ sessionSegment(h, im))
          => /\ tasks'[nextTask].image = im
             /\ tasks'[nextTask].key = ImageKey(im)
             /\ ImageKey(im) \in DOMAIN embeddingCache =>
                  /\ tasks'[nextTask].pc = "dec"
                  /\ tasks'[nextTask].embedding
                       = embeddingCache[ImageKey(im)].embedding
             /\ ImageKey(im) \notin DOMAIN embeddingCache =>
                  /\ tasks'[nextTask].pc = "enc"
                  /\ tasks'[nextTask].originalWidth = im.width
                  /\ tasks'[nextTask].originalHeight = im.height]_vars
  /\ [][\A t \in Tasks :
          (/\ tasks[t].kind = "session" /\ tasks[t].pc = "enc"
           /\ tasks'[t].pc = "dec")
          => /\ DOMAIN embeddingCache'
                  = DOMAIN embeddingCache \cup {tasks[t].key}
             /\ embeddingCache'[tasks[t].key].embedding.image = tasks[t].image
             /\ tasks'[t].feeds.image_embeddings.image = tasks[t].image]_vars

\* a session created with the image element was called with the canvas: the
\* call resolved after an encoder run, the cache holds the embedding of the
\* canvas under the identity of the canvas and nothing under the stored
\* identity
C33_Witness ==
  \E t \in Tasks :
    /\ tasks[t].kind = "session" /\ tasks[t].pc = "resolved"
    /\ tasks[t].ranEncoder
    /\ tasks[t].image = CanvasK
    /\ objs[tasks[t].obj].imageKey.tag = "img"
    /\ objs[tasks[t].obj].imageKey.src = ImgA.src
    /\ tasks[t].key.tag = "canvas"
    /\ tasks[t].key \in DOMAIN embeddingCache
    /\ embeddingCache[tasks[t].key].embedding.image = CanvasK
    /\ objs[tasks[t].obj].imageKey \notin DOMAIN embeddingCache

====
